---- MODULE Spec2Model ----
(***************************************************************************)
(* Toldi.js request router (src/src/toldi.js): route table, path matcher,  *)
(* middleware chain executor and dispatcher.                               *)
(*                                                                         *)
(* Strings whose characters the code inspects (paths, path segments) are   *)
(* sequences of one-character strings: "/a" is <<"/", "a">>.               *)
(***************************************************************************)
EXTENDS Naturals, Integers, Sequences, FiniteSets, TLC

VARIABLES
    searchMode,      \* exports.searchMode
    routes,          \* exports.routes: an array (dynamic) or an object (static)
    middlewares,     \* exports.middlewares: the global middleware list
    fallback,        \* the fallback handler
    responses,       \* the error-response text table
    errorListeners,  \* whether a listener is attached to the emitter's "error" event
    reqs,            \* one record per request: its position in requestHandler
    lastOp,          \* history: the last setup operation and the table it found
    fnIn,            \* input of the pure function under test
    fnOut            \* its result

vars == <<searchMode, routes, middlewares, fallback, responses, errorListeners,
          reqs, lastOp, fnIn, fnOut>>

routerVars == <<searchMode, routes, middlewares, fallback, responses,
                errorListeners, reqs, lastOp>>

-----------------------------------------------------------------------------
(* Bounds *)

\* most routes the table holds
MaxRoutes == 3
\* longest middleware list
MaxMwLen == 2
\* most candidate handlers of a split handler
MaxCands == 2
\* most segments of a route path given to the matcher
MaxRouteSegs == 3
\* most segments of a request path given to the matcher
MaxReqSegs == 4
\* longest string given to the tokenizer
MaxSplitLen == 5
\* most calls of continuations within one request, when they may repeat
MaxCalls == 4

-----------------------------------------------------------------------------
(* Strings *)

RECURSIVE Flatten(_)
Flatten(ss) == IF ss = <<>> THEN <<>> ELSE Head(ss) \o Flatten(Tail(ss))

\* "/s1/s2/.../sn"
Join(segs) == Flatten([k \in 1..Len(segs) |-> <<"/">> \o segs[k]])

\* String.prototype.includes for a single character
Includes(str, ch) == \E k \in 1..Len(str) : str[k] = ch

RECURSIVE SeqsUpTo(_, _)
SeqsUpTo(S, n) ==
    IF n = 0 THEN {<<>>}
    ELSE LET shorter == SeqsUpTo(S, n - 1)
         IN  shorter \cup {Append(s, x) : s \in {t \in shorter : Len(t) = n - 1}, x \in S}

-----------------------------------------------------------------------------
(* Segment tokenizer *)

RECURSIVE SplitLoop(_, _, _, _, _)
SplitLoop(data, separator, i, result, buffer) ==
    IF i > Len(data) THEN [result |-> result, buffer |-> buffer]
    ELSE IF data[i] = separator
         THEN SplitLoop(data, separator, i + 1,
                        IF ~(buffer = <<>> /\ (i = 1 \/ i = Len(data)))
                        THEN Append(result, buffer) ELSE result,
                        <<>>)
         ELSE SplitLoop(data, separator, i + 1, result, Append(buffer, data[i]))

\* as splitWithoutEmptyStrings, but without the final push of data
splitWithoutLastResort(data, separator) ==
    LET loop == SplitLoop(data, separator, 1, <<>>, <<>>)
    IN  IF loop.buffer # <<>> THEN Append(loop.result, loop.buffer) ELSE loop.result

splitWithoutEmptyStrings(data, separator) ==
    LET loop == SplitLoop(data, separator, 1, <<>>, <<>>)
        flushed == IF loop.buffer # <<>> THEN Append(loop.result, loop.buffer)
                   ELSE loop.result
    IN  IF Len(flushed) = 0 THEN <<data>> ELSE flushed

-----------------------------------------------------------------------------
(* Path matcher: the body of the dynamic-mode loop of requestHandler *)

NoParams == [n \in {} |-> <<>>]

IsParamSegment(seg) == seg # <<>> /\ seg[1] = "{" /\ seg[Len(seg)] = "}"

ParamName(seg) == SubSeq(seg, 2, Len(seg) - 1)

Bind(temp, name, value) ==
    [n \in DOMAIN temp \cup {name} |-> IF n = name THEN value ELSE temp[n]]

RECURSIVE MatchSegments(_, _, _, _)
MatchSegments(splitReqPath, splitRoutePath, j, temp) ==
    IF j > Len(splitReqPath) THEN [result |-> TRUE, temp |-> temp]
    ELSE IF splitRoutePath[j] = <<"*">> THEN [result |-> TRUE, temp |-> temp]
    ELSE IF IsParamSegment(splitRoutePath[j])
         THEN MatchSegments(splitReqPath, splitRoutePath, j + 1,
                            Bind(temp, ParamName(splitRoutePath[j]), splitReqPath[j]))
    ELSE IF splitReqPath[j] # splitRoutePath[j] THEN [result |-> FALSE, temp |-> NoParams]
    ELSE MatchSegments(splitReqPath, splitRoutePath, j + 1, temp)

\* as MatchRoute, but a shorter request is not skipped
MatchRouteShorterAllowed(splitReqPath, routePath) ==
    LET splitRoutePath == splitWithoutEmptyStrings(routePath, "/")
    IN  IF Len(splitReqPath) > Len(splitRoutePath)
        THEN [result |-> FALSE, temp |-> NoParams]
        ELSE MatchSegments(splitReqPath, splitRoutePath, 1, NoParams)

MatchRoute(splitReqPath, routePath) ==
    LET splitRoutePath == splitWithoutEmptyStrings(routePath, "/")
    IN  IF Len(splitReqPath) # Len(splitRoutePath)
        THEN [result |-> FALSE, temp |-> NoParams]
        ELSE MatchSegments(splitReqPath, splitRoutePath, 1, NoParams)

-----------------------------------------------------------------------------
(* Routes, handler entries and the route table *)

\* String.prototype.toUpperCase on the method names the model uses
ToUpperCase(method) ==
    CASE method = "get" -> "GET"
      [] method = "post" -> "POST"
      [] method = "all" -> "ALL"
      [] OTHER -> method

\* new Handler(handler, ...middlewares): nMws method-scoped middlewares
NewHandler(nMws) == [kind |-> "Handler", middlewares |-> nMws, handlers |-> 0]

\* new SplitHandler(splitter, ...handlers): nCands candidate handlers
NewSplitHandler(nCands) == [kind |-> "SplitHandler", middlewares |-> 0, handlers |-> nCands]

NoHandlers == [m \in {} |-> NewHandler(0)]

\* new Route(path)
NewRoute(path) == [path |-> path, handlers |-> NoHandlers, middlewares |-> 0]

EmptyArray == [kind |-> "array", items |-> <<>>]
EmptyObject == [kind |-> "object", items |-> <<>>]

\* path[0] !== "/"  =>  "/" + path
NormalizePath(path) == IF path # <<>> /\ Head(path) = "/" THEN path ELSE <<"/">> \o path

\* index of the first route of an array with this path, 0 when there is none
ArrayFind(items, path) ==
    IF \E i \in 1..Len(items) : items[i].path = path
    THEN CHOOSE i \in 1..Len(items) :
             items[i].path = path /\ \A k \in 1..(i - 1) : items[k].path # path
    ELSE 0

\* an object is its own properties in insertion order
ObjectHas(entries, key) == \E i \in 1..Len(entries) : entries[i].key = key

ObjectGet(entries, key) == entries[CHOOSE i \in 1..Len(entries) : entries[i].key = key].value

\* object[key] = value: an existing property keeps its place
ObjectSet(entries, key, value) ==
    IF ObjectHas(entries, key)
    THEN [i \in 1..Len(entries) |->
             IF entries[i].key = key THEN [key |-> key, value |-> value] ELSE entries[i]]
    ELSE Append(entries, [key |-> key, value |-> value])

\* the routes of the table, in array order or in property order
TableRoutes(table) ==
    IF table.kind = "array" THEN table.items
    ELSE [i \in 1..Len(table.items) |-> table.items[i].value]

TableHas(table, path) == \E i \in 1..Len(table.items) : TableRoutes(table)[i].path = path

\* the route object route(path) returns when it exists
TableGet(table, path) ==
    IF table.kind = "array" THEN table.items[ArrayFind(table.items, path)]
    ELSE ObjectGet(table.items, path)

\* the table after a route object it holds was mutated in place
TableMutate(table, path, route) ==
    IF table.kind = "array"
    THEN [table EXCEPT !.items = [i \in 1..Len(table.items) |->
             IF i = ArrayFind(table.items, path) THEN route ELSE table.items[i]]]
    ELSE [table EXCEPT !.items = ObjectSet(table.items, path, route)]

NoTable == [kind |-> "none", items |-> <<>>]

Op(name, args, ret, before, modeBefore) ==
    [op |-> name, args |-> args, ret |-> ret, routes |-> before, searchMode |-> modeBefore]

-----------------------------------------------------------------------------
(* Route lookup: the search of requestHandler *)

NotFound == [found |-> FALSE]

Found(i, route, key, params) ==
    [found |-> TRUE, index |-> i, route |-> route, key |-> key,
     handler |-> route.handlers[key], params |-> params]

\* as HandlerKey, but the "ALL" entry is taken first
HandlerKeyAllFirst(route, upperCaseMethod) ==
    IF "ALL" \in DOMAIN route.handlers THEN "ALL" ELSE upperCaseMethod

\* handlers[upperCaseMethod] || handlers["ALL"]
HandlerKey(route, upperCaseMethod) ==
    IF upperCaseMethod \in DOMAIN route.handlers THEN upperCaseMethod ELSE "ALL"

\* as DynamicScan, but the last matching route wins
RECURSIVE DynamicScanLast(_, _, _, _)
DynamicScanLast(items, splitReqPath, upperCaseMethod, i) ==
    IF i > Len(items) THEN NotFound
    ELSE LET later == DynamicScanLast(items, splitReqPath, upperCaseMethod, i + 1)
             match == MatchRoute(splitReqPath, items[i].path)
         IN  IF later.found THEN later
             ELSE IF /\ upperCaseMethod \notin DOMAIN items[i].handlers
                     /\ "ALL" \notin DOMAIN items[i].handlers
                  THEN NotFound
             ELSE IF match.result
                  THEN Found(i, items[i], HandlerKey(items[i], upperCaseMethod), match.temp)
             ELSE NotFound

\* the bindings an attempt has collected when it ends, matched or not
RECURSIVE CollectedBindings(_, _, _, _)
CollectedBindings(splitReqPath, splitRoutePath, j, temp) ==
    IF j > Len(splitReqPath) THEN temp
    ELSE IF splitRoutePath[j] = <<"*">> THEN temp
    ELSE IF IsParamSegment(splitRoutePath[j])
         THEN CollectedBindings(splitReqPath, splitRoutePath, j + 1,
                                Bind(temp, ParamName(splitRoutePath[j]), splitReqPath[j]))
    ELSE IF splitReqPath[j] # splitRoutePath[j] THEN temp
    ELSE CollectedBindings(splitReqPath, splitRoutePath, j + 1, temp)

RECURSIVE ScanSharedTemp(_, _, _, _, _)
ScanSharedTemp(items, splitReqPath, upperCaseMethod, i, temp) ==
    IF i > Len(items) THEN NotFound
    ELSE IF /\ upperCaseMethod \notin DOMAIN items[i].handlers
            /\ "ALL" \notin DOMAIN items[i].handlers
         THEN ScanSharedTemp(items, splitReqPath, upperCaseMethod, i + 1, temp)
    ELSE LET splitRoutePath == splitWithoutEmptyStrings(items[i].path, "/")
         IN  IF Len(splitReqPath) # Len(splitRoutePath)
             THEN ScanSharedTemp(items, splitReqPath, upperCaseMethod, i + 1, temp)
             ELSE IF MatchSegments(splitReqPath, splitRoutePath, 1, temp).result
             THEN Found(i, items[i], HandlerKey(items[i], upperCaseMethod),
                        CollectedBindings(splitReqPath, splitRoutePath, 1, temp))
             ELSE ScanSharedTemp(items, splitReqPath, upperCaseMethod, i + 1,
                                 CollectedBindings(splitReqPath, splitRoutePath, 1, temp))

\* as DynamicScan, but with one temp for the whole scan in place of one for
\* each route
DynamicScanSharedTemp(items, splitReqPath, upperCaseMethod, i) ==
    ScanSharedTemp(items, splitReqPath, upperCaseMethod, i, NoParams)

RECURSIVE DynamicScan(_, _, _, _)
DynamicScan(items, splitReqPath, upperCaseMethod, i) ==
    IF i > Len(items) THEN NotFound
    ELSE IF /\ upperCaseMethod \notin DOMAIN items[i].handlers
            /\ "ALL" \notin DOMAIN items[i].handlers
         THEN DynamicScan(items, splitReqPath, upperCaseMethod, i + 1)
    ELSE LET match == MatchRoute(splitReqPath, items[i].path)
         IN  IF match.result
             THEN Found(i, items[i], HandlerKey(items[i], upperCaseMethod), match.temp)
             ELSE DynamicScan(items, splitReqPath, upperCaseMethod, i + 1)

\* static mode: routes[req.path], taken only when it has the exact method
StaticLookup(entries, path, upperCaseMethod) ==
    IF ObjectHas(entries, path)
           /\ upperCaseMethod \in DOMAIN ObjectGet(entries, path).handlers
    THEN Found(CHOOSE i \in 1..Len(entries) : entries[i].key = path,
               ObjectGet(entries, path),
               HandlerKey(ObjectGet(entries, path), upperCaseMethod), NoParams)
    ELSE NotFound

Lookup(table, mode, path, upperCaseMethod) ==
    IF mode = "dynamic"
    THEN DynamicScan(table.items, splitWithoutEmptyStrings(path, "/"), upperCaseMethod, 1)
    ELSE StaticLookup(table.items, path, upperCaseMethod)

-----------------------------------------------------------------------------
(* Setup operations *)

\* as Route, but the search for an existing route is skipped
RouteAlwaysCreates(path0, createNew) ==
    LET path == NormalizePath(path0)
    IN  /\ ~createNew \/ Len(routes.items) < MaxRoutes
        /\ routes' =
             IF ~createNew THEN routes
             ELSE IF searchMode = "dynamic"
                  THEN [routes EXCEPT !.items = Append(@, NewRoute(path))]
                  ELSE [routes EXCEPT !.items = ObjectSet(@, path, NewRoute(path))]
        /\ lastOp' = Op("route", <<>>, IF createNew THEN "created" ELSE "null",
                        NoTable, searchMode)
        /\ UNCHANGED <<searchMode, middlewares, fallback, responses, errorListeners,
                       reqs, fnIn, fnOut>>

\* exports.route(path, createNew)
Route(path0, createNew) ==
    LET path == NormalizePath(path0)
        found == IF searchMode = "dynamic"
                 THEN ArrayFind(routes.items, path) # 0
                 ELSE ObjectHas(routes.items, path)
    IN  /\ found \/ ~createNew \/ Len(routes.items) < MaxRoutes
        /\ routes' =
             IF found \/ ~createNew THEN routes
             ELSE IF searchMode = "dynamic"
                  THEN [routes EXCEPT !.items = Append(@, NewRoute(path))]
                  ELSE [routes EXCEPT !.items = ObjectSet(@, path, NewRoute(path))]
        /\ lastOp' = Op("route", <<>>,
                        IF found THEN "found" ELSE IF createNew THEN "created" ELSE "null",
                        NoTable, searchMode)
        /\ UNCHANGED <<searchMode, middlewares, fallback, responses, errorListeners,
                       reqs, fnIn, fnOut>>

\* Route.addHandler(method, requestHandler, ...middlewares) on the route at path
AddHandler(path, method, nMws) ==
    /\ TableHas(routes, path)
    /\ LET route == TableGet(routes, path)
           key == ToUpperCase(method)
           handlers == [m \in DOMAIN route.handlers \cup {key} |->
                           IF m = key THEN NewHandler(nMws) ELSE route.handlers[m]]
       IN  routes' = TableMutate(routes, path, [route EXCEPT !.handlers = handlers])
    /\ lastOp' = Op("addHandler", <<>>, "route", NoTable, searchMode)
    /\ UNCHANGED <<searchMode, middlewares, fallback, responses, errorListeners,
                   reqs, fnIn, fnOut>>

IsParamRoute(route) == Includes(route.path, "{") /\ Includes(route.path, "}")
IsWildcardRoute(route) == ~IsParamRoute(route) /\ Includes(route.path, "*")
IsPlainRoute(route) == ~IsParamRoute(route) /\ ~IsWildcardRoute(route)

\* as Reordered, with the wildcard routes before the parameterized ones
ReorderedWildcardFirst(items) ==
    SelectSeq(items, IsPlainRoute) \o SelectSeq(items, IsWildcardRoute)
        \o SelectSeq(items, IsParamRoute)

Reordered(items) ==
    SelectSeq(items, IsPlainRoute) \o SelectSeq(items, IsParamRoute)
        \o SelectSeq(items, IsWildcardRoute)

\* exports.reorder(); on the object of static mode routes.filter is not a function
Reorder ==
    /\ searchMode = "dynamic"
    /\ routes' = [routes EXCEPT !.items = Reordered(@)]
    /\ lastOp' = Op("reorder", <<>>, "undefined", routes, searchMode)
    /\ UNCHANGED <<searchMode, middlewares, fallback, responses, errorListeners,
                   reqs, fnIn, fnOut>>

RECURSIVE ObjectFromArray(_, _)
ObjectFromArray(items, tempRoutes) ==
    IF items = <<>> THEN tempRoutes
    ELSE ObjectFromArray(Tail(items), ObjectSet(tempRoutes, Head(items).path, Head(items)))

ArrayFromObject(entries) == [i \in 1..Len(entries) |-> entries[i].value]

\* as SwitchedTable, but the kept routes come out in reverse order
SwitchedTableReversed(mode, keepRoutes) ==
    IF mode = "dynamic"
    THEN IF keepRoutes
         THEN [kind |-> "array",
               items |-> [i \in 1..Len(routes.items) |->
                             routes.items[Len(routes.items) + 1 - i].value]]
         ELSE EmptyArray
    ELSE IF keepRoutes
         THEN [kind |-> "object", items |-> ObjectFromArray(routes.items, <<>>)]
         ELSE EmptyObject

\* the table setSearchMode builds for the other mode
SwitchedTable(mode, keepRoutes) ==
    IF mode = "dynamic"
    THEN IF keepRoutes
         THEN [kind |-> "array", items |-> ArrayFromObject(routes.items)]
         ELSE EmptyArray
    ELSE IF keepRoutes
         THEN [kind |-> "object", items |-> ObjectFromArray(routes.items, <<>>)]
         ELSE EmptyObject

\* as SetSearchMode, but the table is cleared whenever keepRoutes is false
SetSearchModeClears(mode, keepRoutes) ==
    /\ IF searchMode = mode
       THEN /\ routes' = IF keepRoutes THEN routes ELSE [routes EXCEPT !.items = <<>>]
            /\ UNCHANGED searchMode
            /\ lastOp' = Op("setSearchMode", <<mode, keepRoutes>>, "same", NoTable, searchMode)
       ELSE IF mode \in {"dynamic", "static"}
       THEN /\ routes' = SwitchedTable(mode, keepRoutes)
            /\ searchMode' = mode
            /\ lastOp' = Op("setSearchMode", <<mode, keepRoutes>>, "switched", routes, searchMode)
       ELSE /\ UNCHANGED <<searchMode, routes>>
            /\ lastOp' = Op("setSearchMode", <<mode, keepRoutes>>, "error", NoTable, searchMode)
    /\ UNCHANGED <<middlewares, fallback, responses, errorListeners, reqs, fnIn, fnOut>>

\* exports.setSearchMode(searchMode, keepRoutes)
SetSearchMode(mode, keepRoutes) ==
    /\ IF searchMode = mode
       THEN /\ UNCHANGED <<searchMode, routes>>
            /\ lastOp' = Op("setSearchMode", <<mode, keepRoutes>>, "same", NoTable, searchMode)
       ELSE IF mode \in {"dynamic", "static"}
       THEN /\ routes' = SwitchedTable(mode, keepRoutes)
            /\ searchMode' = mode
            /\ lastOp' = Op("setSearchMode", <<mode, keepRoutes>>, "switched", routes, searchMode)
       ELSE /\ UNCHANGED <<searchMode, routes>>
            /\ lastOp' = Op("setSearchMode", <<mode, keepRoutes>>, "error", NoTable, searchMode)
    /\ UNCHANGED <<middlewares, fallback, responses, errorListeners, reqs, fnIn, fnOut>>

\* Route.addSplitHandler(method, splitter, ...requestHandlers): the key is the
\* method as given
AddSplitHandler(path, method, nCands) ==
    /\ TableHas(routes, path)
    /\ LET route == TableGet(routes, path)
           handlers == [m \in DOMAIN route.handlers \cup {method} |->
                           IF m = method THEN NewSplitHandler(nCands) ELSE route.handlers[m]]
       IN  routes' = TableMutate(routes, path, [route EXCEPT !.handlers = handlers])
    /\ lastOp' = Op("addSplitHandler", <<>>, "route", NoTable, searchMode)
    /\ UNCHANGED <<searchMode, middlewares, fallback, responses, errorListeners,
                   reqs, fnIn, fnOut>>

\* Route.addMiddleware(...middlewares) with n middlewares
RouteAddMiddleware(path, n) ==
    /\ TableHas(routes, path)
    /\ TableGet(routes, path).middlewares + n <= MaxMwLen
    /\ LET route == TableGet(routes, path)
       IN  routes' = TableMutate(routes, path, [route EXCEPT !.middlewares = @ + n])
    /\ lastOp' = Op("route.addMiddleware", <<>>, "route", NoTable, searchMode)
    /\ UNCHANGED <<searchMode, middlewares, fallback, responses, errorListeners,
                   reqs, fnIn, fnOut>>

\* Route.addMiddlewareToMethod(method, ...middlewares); handlers[method] must
\* exist, or the push throws with nothing changed
AddMiddlewareToMethod(path, method, n) ==
    /\ TableHas(routes, path)
    /\ method \in DOMAIN TableGet(routes, path).handlers
    /\ TableGet(routes, path).handlers[method].middlewares + n <= MaxMwLen
    /\ LET route == TableGet(routes, path)
       IN  routes' = TableMutate(routes, path,
                         [route EXCEPT !.handlers[method].middlewares = @ + n])
    /\ lastOp' = Op("addMiddlewareToMethod", <<>>, "route", NoTable, searchMode)
    /\ UNCHANGED <<searchMode, middlewares, fallback, responses, errorListeners,
                   reqs, fnIn, fnOut>>

\* exports.addMiddleware(...middlewares) with n middlewares
AddMiddleware(n) ==
    /\ middlewares + n <= MaxMwLen
    /\ middlewares' = middlewares + n
    /\ lastOp' = Op("addMiddleware", <<>>, "undefined", NoTable, searchMode)
    /\ UNCHANGED <<searchMode, routes, fallback, responses, errorListeners,
                   reqs, fnIn, fnOut>>

\* exports.setFallback(handler)
SetFallback(handler) ==
    /\ fallback' = handler
    /\ lastOp' = Op("setFallback", <<>>, "undefined", NoTable, searchMode)
    /\ UNCHANGED <<searchMode, routes, middlewares, responses, errorListeners,
                   reqs, fnIn, fnOut>>

\* exports.setResponse(errorType, response)
SetResponse(errorType, response) ==
    /\ responses' = [responses EXCEPT ![errorType] = response]
    /\ lastOp' = Op("setResponse", <<>>, "undefined", NoTable, searchMode)
    /\ UNCHANGED <<searchMode, routes, middlewares, fallback, errorListeners,
                   reqs, fnIn, fnOut>>

\* exports.addEventListener("error", listener)
AddEventListener ==
    /\ errorListeners' = TRUE
    /\ lastOp' = Op("addEventListener", <<>>, "undefined", NoTable, searchMode)
    /\ UNCHANGED <<searchMode, routes, middlewares, fallback, responses,
                   reqs, fnIn, fnOut>>

-----------------------------------------------------------------------------
(* The request pipeline: requestHandler and execMiddlewares *)

\* what a request did, in order
MwEvent(chain, i) == [e |-> "mw", chain |-> chain, i |-> i]
NextEvent(chain, i) == [e |-> "next", chain |-> chain, i |-> i]
LookupEvent(found) == [e |-> "lookup", found |-> found]
HandlerEvent(path, key) == [e |-> "handler", path |-> path, key |-> key]
SplitterEvent(path, key) == [e |-> "splitter", path |-> path, key |-> key]
CandidateEvent(index) == [e |-> "candidate", index |-> index]
ErrorEvent == [e |-> "error"]
FallbackEvent(handler) == [e |-> "fallback", handler |-> handler]
ResponseEvent(status, body) == [e |-> "response", status |-> status, body |-> body]

Pending == [pending |-> TRUE]

\* a value not yet there (req.params before a match, the splitter's result
\* before it returns), and one that is
Undefined == [defined |-> FALSE]
Defined(value) == [defined |-> TRUE, value |-> value]

IdleRequest ==
    [pc |-> "idle", path |-> <<>>, method |-> "", params |-> Undefined,
     i |-> 0, mw |-> "none", resolved |-> FALSE, matched |-> Pending,
     result |-> Undefined, log |-> <<>>]

\* as execMiddlewares, but the promise is resolved at once
ExecMiddlewaresResolved(rq, chain, length) ==
    IF length = 0
    THEN [rq EXCEPT !.pc = chain, !.i = 0, !.mw = "none", !.resolved = TRUE]
    ELSE [rq EXCEPT !.pc = chain, !.i = 0, !.mw = "running", !.resolved = TRUE,
                    !.log = Append(@, MwEvent(chain, 0))]

\* as ExecMiddlewares, but the failing call of middlewares[0] of an empty list
\* rejects the promise
ExecMiddlewaresEmptyThrows(rq, chain, length) ==
    IF length = 0
    THEN [rq EXCEPT !.pc = "threw", !.i = 0, !.mw = "none", !.resolved = FALSE]
    ELSE [rq EXCEPT !.pc = chain, !.i = 0, !.mw = "running", !.resolved = FALSE,
                    !.log = Append(@, MwEvent(chain, 0))]

\* execMiddlewares(middlewares, req, res): an empty list resolves at once (the
\* call of middlewares[0] then throws inside the settled promise, without
\* effect); otherwise the first middleware is invoked
ExecMiddlewares(rq, chain, length) ==
    IF length = 0
    THEN [rq EXCEPT !.pc = chain, !.i = 0, !.mw = "none", !.resolved = TRUE]
    ELSE [rq EXCEPT !.pc = chain, !.i = 0, !.mw = "running", !.resolved = FALSE,
                    !.log = Append(@, MwEvent(chain, 0))]

\* as callNext, but the middleware after the next one is invoked
callNextSkipping(rq, length) ==
    IF rq.i + 1 >= length - 1
    THEN [rq EXCEPT !.i = rq.i + 1, !.mw = "none", !.resolved = TRUE,
                    !.log = Append(@, NextEvent(rq.pc, rq.i))]
    ELSE [rq EXCEPT !.i = rq.i + 2, !.mw = "running",
                    !.log = @ \o <<NextEvent(rq.pc, rq.i), MwEvent(rq.pc, rq.i + 2)>>]

\* as callNext, but the chain resolves one call too late: after the last
\* middleware continues, middlewares[length] is called, which throws
callNextPastEnd(rq, length) ==
    IF rq.i + 1 > length
    THEN [rq EXCEPT !.i = rq.i + 1, !.mw = "none", !.resolved = TRUE,
                    !.log = Append(@, NextEvent(rq.pc, rq.i))]
    ELSE IF rq.i + 1 = length
    THEN [rq EXCEPT !.i = rq.i + 1, !.mw = "none",
                    !.log = Append(@, NextEvent(rq.pc, rq.i))]
    ELSE [rq EXCEPT !.i = rq.i + 1, !.mw = "running",
                    !.log = @ \o <<NextEvent(rq.pc, rq.i), MwEvent(rq.pc, rq.i + 1)>>]

\* the continuation callNext of execMiddlewares
callNext(rq, length) ==
    IF rq.i + 1 = length
    THEN [rq EXCEPT !.i = rq.i + 1, !.mw = "none", !.resolved = TRUE,
                    !.log = Append(@, NextEvent(rq.pc, rq.i))]
    ELSE [rq EXCEPT !.i = rq.i + 1, !.mw = "running",
                    !.log = @ \o <<NextEvent(rq.pc, rq.i), MwEvent(rq.pc, rq.i + 1)>>]

\* the list the chain in progress runs
ChainLength(rq) ==
    CASE rq.pc = "global" -> middlewares
      [] rq.pc = "route" -> rq.matched.route.middlewares
      [] rq.pc = "method" -> rq.matched.handler.middlewares

\* requestHandler up to the first await: the path is normalized and the global
\* chain is started
Arrive(r, url, method) ==
    /\ reqs[r].pc = "idle"
    /\ reqs' = [reqs EXCEPT ![r] =
                   ExecMiddlewares([@ EXCEPT !.path = NormalizePath(url), !.method = method],
                                   "global", middlewares)]
    /\ lastOp' = Op("requestHandler", <<>>, "undefined", NoTable, searchMode)
    /\ UNCHANGED <<searchMode, routes, middlewares, fallback, responses,
                   errorListeners, fnIn, fnOut>>

\* the running middleware invokes its continuation
CallNext(r) ==
    /\ reqs[r].mw = "running"
    /\ reqs' = [reqs EXCEPT ![r] = callNext(@, ChainLength(@))]
    /\ UNCHANGED <<searchMode, routes, middlewares, fallback, responses,
                   errorListeners, lastOp, fnIn, fnOut>>

\* the running middleware returns for good without invoking its continuation
Halt(r) ==
    /\ reqs[r].mw = "running"
    /\ reqs' = [reqs EXCEPT ![r].mw = "halted"]
    /\ UNCHANGED <<searchMode, routes, middlewares, fallback, responses,
                   errorListeners, lastOp, fnIn, fnOut>>

\* as CallFallback, but the initial fallback is called whatever setFallback set
CallFallbackInitial(rq) ==
    [rq EXCEPT !.pc = "done", !.resolved = FALSE,
               !.log = @ \o <<FallbackEvent("default"), ResponseEvent(404, responses["404"])>>]

\* the default fallback writes 404 and responses["404"]; a replacement is the
\* caller's function; none is called when fallback is falsy
CallFallback(rq) ==
    [rq EXCEPT !.pc = "done", !.resolved = FALSE,
               !.log = @ \o (IF fallback = "default"
                             THEN <<FallbackEvent(fallback), ResponseEvent(404, responses["404"])>>
                             ELSE IF fallback = "none" THEN <<>>
                             ELSE <<FallbackEvent(fallback)>>)]

\* as RouteLookup, but the bindings are kept in one place for all requests
RouteLookupSharedParams(r) ==
    /\ reqs[r].pc = "global"
    /\ reqs[r].resolved
    /\ LET rq == reqs[r]
           l == Lookup(routes, searchMode, rq.path, ToUpperCase(rq.method))
           looked == [rq EXCEPT !.matched = l, !.log = Append(@, LookupEvent(l.found))]
       IN  reqs' = [q \in DOMAIN reqs |->
                       IF q = r
                       THEN IF l.found
                            THEN ExecMiddlewares([looked EXCEPT !.params = Defined(l.params)],
                                                 "route", l.route.middlewares)
                            ELSE CallFallback(looked)
                       ELSE IF l.found /\ reqs[q].params.defined
                            THEN [reqs[q] EXCEPT !.params = Defined(l.params)]
                            ELSE reqs[q]]
    /\ UNCHANGED <<searchMode, routes, middlewares, fallback, responses,
                   errorListeners, lastOp, fnIn, fnOut>>

\* requestHandler after the global chain: the search, then the route's chain or
\* the fallback
RouteLookup(r) ==
    /\ reqs[r].pc = "global"
    /\ reqs[r].resolved
    /\ LET rq == reqs[r]
           l == Lookup(routes, searchMode, rq.path, ToUpperCase(rq.method))
           looked == [rq EXCEPT !.matched = l, !.log = Append(@, LookupEvent(l.found))]
       IN  reqs' = [reqs EXCEPT ![r] =
                       IF l.found
                       THEN ExecMiddlewares(
                                [looked EXCEPT !.params = IF searchMode = "dynamic"
                                                          THEN Defined(l.params) ELSE @],
                                "route", l.route.middlewares)
                       ELSE CallFallback(looked)]
    /\ UNCHANGED <<searchMode, routes, middlewares, fallback, responses,
                   errorListeners, lastOp, fnIn, fnOut>>

\* as MethodChain, but the handler entry is fetched again from the table as it
\* is when the route's chain has completed
MethodChainRereads(r) ==
    /\ reqs[r].pc = "route"
    /\ reqs[r].resolved
    /\ LET rq == reqs[r]
           l == Lookup(routes, searchMode, rq.path, ToUpperCase(rq.method))
           again == IF l.found THEN [rq EXCEPT !.matched = l] ELSE rq
       IN  reqs' = [reqs EXCEPT ![r] =
                       ExecMiddlewares(again, "method", again.matched.handler.middlewares)]
    /\ UNCHANGED <<searchMode, routes, middlewares, fallback, responses,
                   errorListeners, lastOp, fnIn, fnOut>>

\* requestHandler after the route's chain: the handler entry's chain
MethodChain(r) ==
    /\ reqs[r].pc = "route"
    /\ reqs[r].resolved
    /\ reqs' = [reqs EXCEPT ![r] =
                   ExecMiddlewares(@, "method", @.matched.handler.middlewares)]
    /\ UNCHANGED <<searchMode, routes, middlewares, fallback, responses,
                   errorListeners, lastOp, fnIn, fnOut>>

\* handler.handle(req, res): Handler.handle calls the handler, SplitHandler.handle
\* calls the splitter and awaits it
Invoke(r) ==
    /\ reqs[r].pc = "method"
    /\ reqs[r].resolved
    /\ LET rq == reqs[r]
       IN  reqs' = [reqs EXCEPT ![r] =
                       IF rq.matched.handler.kind = "Handler"
                       THEN [rq EXCEPT !.pc = "done", !.resolved = FALSE,
                                       !.log = Append(@, HandlerEvent(rq.matched.route.path,
                                                                      rq.matched.key))]
                       ELSE [rq EXCEPT !.pc = "splitter", !.resolved = FALSE,
                                       !.log = Append(@, SplitterEvent(rq.matched.route.path,
                                                                       rq.matched.key))]]
    /\ UNCHANGED <<searchMode, routes, middlewares, fallback, responses,
                   errorListeners, lastOp, fnIn, fnOut>>

\* as OutOfRange, but an index equal to the number of handlers passes
OutOfRangeOffByOne(result, length) == result > length \/ result < 0

\* result >= this.handlers.length || result < 0
OutOfRange(result, length) == result >= length \/ result < 0

\* SplitHandler.handle after the splitter returned result; emitting "error"
\* with no listener attached throws before anything is written
SplitterReturns(r, result) ==
    /\ reqs[r].pc = "splitter"
    /\ LET rq == reqs[r]
       IN  reqs' = [reqs EXCEPT ![r] =
                       IF OutOfRange(result, rq.matched.handler.handlers)
                       THEN IF errorListeners
                            THEN [rq EXCEPT !.pc = "done", !.result = Defined(result),
                                            !.log = @ \o <<ErrorEvent,
                                                           ResponseEvent(500, responses["500"])>>]
                            ELSE [rq EXCEPT !.pc = "threw", !.result = Defined(result),
                                            !.log = Append(@, ErrorEvent)]
                       ELSE [rq EXCEPT !.pc = "done", !.result = Defined(result),
                                       !.log = Append(@, CandidateEvent(result))]]
    /\ UNCHANGED <<searchMode, routes, middlewares, fallback, responses,
                   errorListeners, lastOp, fnIn, fnOut>>

\* setup is over when the first request arrives
SetupPhase == \A r \in DOMAIN reqs : reqs[r].pc = "idle"

Requests == {"r1"}

-----------------------------------------------------------------------------
(* The field parsers: parseQuery, the cookie parser and their coercion *)

Digits == {"0", "1", "2", "3", "4", "5", "6", "7", "8", "9"}
HexLetters == {"a", "b", "c", "d", "e", "f", "A", "B", "C", "D", "E", "F"}

DigitValue(c) ==
    CASE c = "0" -> 0 [] c = "1" -> 1 [] c = "2" -> 2 [] c = "3" -> 3 [] c = "4" -> 4
      [] c = "5" -> 5 [] c = "6" -> 6 [] c = "7" -> 7 [] c = "8" -> 8 [] c = "9" -> 9

HexValue(c) ==
    CASE c \in Digits -> DigitValue(c)
      [] c \in {"a", "A"} -> 10 [] c \in {"b", "B"} -> 11 [] c \in {"c", "C"} -> 12
      [] c \in {"d", "D"} -> 13 [] c \in {"e", "E"} -> 14 [] c \in {"f", "F"} -> 15

\* the value of a numeral in the given base, most significant digit first
RECURSIVE NumeralValue(_, _)
NumeralValue(str, base) ==
    IF str = <<>> THEN 0
    ELSE NumeralValue(SubSeq(str, 1, Len(str) - 1), base) * base + HexValue(str[Len(str)])

\* white space is stripped from both ends before a string is read as a number
RECURSIVE TrimStart(_)
TrimStart(str) ==
    IF str # <<>> /\ Head(str) = " " THEN TrimStart(Tail(str)) ELSE str

RECURSIVE TrimEnd(_)
TrimEnd(str) ==
    IF str # <<>> /\ str[Len(str)] = " " THEN TrimEnd(SubSeq(str, 1, Len(str) - 1)) ELSE str

Trim(str) == TrimEnd(TrimStart(str))

NaN == [nan |-> TRUE]
Finite(n) == [nan |-> FALSE, value |-> n]

\* Number(string) of JavaScript for strings of digits, letters, spaces and
\* punctuation other than "+", "-" and ".": the empty or blank string is 0, a
\* decimal numeral its value, "0x" or "0X" and hex digits their value, and
\* anything else NaN (no input of the model holds "Infinity", an exponent, a
\* binary or an octal literal)
Number(str) ==
    LET t == Trim(str)
    IN  IF t = <<>> THEN Finite(0)
        ELSE IF \A k \in 1..Len(t) : t[k] \in Digits THEN Finite(NumeralValue(t, 10))
        ELSE IF /\ Len(t) >= 3
                /\ t[1] = "0"
                /\ t[2] \in {"x", "X"}
                /\ \A k \in 3..Len(t) : t[k] \in Digits \cup HexLetters
             THEN Finite(NumeralValue(SubSeq(t, 3, Len(t)), 16))
        ELSE NaN

\* the values a parsed mapping holds
BooleanValue(b) == [boolean |-> b]
NumberValue(n) == [number |-> n]
StringValue(str) == [string |-> str]

True == <<"t", "r", "u", "e">>
False == <<"f", "a", "l", "s", "e">>

\* the conversion of parseQuery: "true" or "" is true, "false" is false, what
\* Number() reads is a number, the rest stays
ConvertQueryValue(valueBuffer) ==
    IF valueBuffer = True \/ valueBuffer = <<>> THEN BooleanValue(TRUE)
    ELSE IF valueBuffer = False THEN BooleanValue(FALSE)
    ELSE IF ~Number(valueBuffer).nan THEN NumberValue(Number(valueBuffer).value)
    ELSE StringValue(valueBuffer)

\* the conversion of the cookie parser: as above without the rule for ""
ConvertCookieValue(valueBuffer) ==
    IF valueBuffer = True THEN BooleanValue(TRUE)
    ELSE IF valueBuffer = False THEN BooleanValue(FALSE)
    ELSE IF ~Number(valueBuffer).nan THEN NumberValue(Number(valueBuffer).value)
    ELSE StringValue(valueBuffer)

EmptyObj == [k \in {} |-> StringValue(<<>>)]

\* object[key] = value
Put(object, key, value) ==
    [k \in DOMAIN object \cup {key} |-> IF k = key THEN value ELSE object[k]]

Null == [null |-> TRUE]
Object(object) == [null |-> FALSE, object |-> object]

\* String.fromCharCode(Number("0x" + hex)) for the escapes the model's inputs
\* hold; a character outside ASCII letters and punctuation is named by its code
FromCharCode(h1, h2) ==
    CASE <<h1, h2>> = <<"4", "1">> -> "A"
      [] <<h1, h2>> = <<"3", "D">> -> "="
      [] <<h1, h2>> = <<"2", "6">> -> "&"
      [] <<h1, h2>> = <<"3", "B">> -> ";"
      [] <<h1, h2>> = <<"2", "0">> -> " "
      [] <<h1, h2>> = <<"3", "1">> -> "1"
      [] <<h1, h2>> = <<"1", "1">> -> "U+0011"
      [] <<h1, h2>> = <<"1", "a">> -> "U+001A"
      [] <<h1, h2>> = <<"a", "1">> -> "U+00A1"
      [] <<h1, h2>> = <<"a", "a">> -> "U+00AA"

\* query[keyBuffer] = convertValues ? converted : valueBuffer
StoreQueryValue(query, convertValues, keyBuffer, valueBuffer) ==
    Put(query, keyBuffer,
        IF convertValues THEN ConvertQueryValue(valueBuffer) ELSE StringValue(valueBuffer))

\* the loop of parseQuery from character i (counted from 1) and what follows it
RECURSIVE ParseQueryLoop(_, _, _, _, _, _, _)
ParseQueryLoop(queryString, convertValues, i, query, keyBuffer, valueBuffer, readingKey) ==
    IF i > Len(queryString)
    THEN IF keyBuffer = <<>> THEN Null
         ELSE Object(StoreQueryValue(query, convertValues, keyBuffer, valueBuffer))
    ELSE IF queryString[i] = "="
    THEN IF keyBuffer = <<>> THEN Null
         ELSE ParseQueryLoop(queryString, convertValues, i + 1, query,
                             keyBuffer, valueBuffer, FALSE)
    ELSE IF queryString[i] \in {"&", ";"}
    THEN IF keyBuffer = <<>> THEN Null
         ELSE ParseQueryLoop(queryString, convertValues, i + 1,
                             StoreQueryValue(query, convertValues, keyBuffer, valueBuffer),
                             <<>>, <<>>, TRUE)
    ELSE IF queryString[i] = "%"
    THEN IF \/ i + 2 > Len(queryString)
            \/ queryString[i + 1] \notin Digits \cup HexLetters
            \/ queryString[i + 2] \notin Digits \cup HexLetters
         THEN Null
         ELSE LET ch == FromCharCode(queryString[i + 1], queryString[i + 2])
              IN  ParseQueryLoop(queryString, convertValues, i + 3, query,
                                 IF readingKey THEN Append(keyBuffer, ch) ELSE keyBuffer,
                                 IF readingKey THEN valueBuffer ELSE Append(valueBuffer, ch),
                                 readingKey)
    ELSE ParseQueryLoop(queryString, convertValues, i + 1, query,
                        IF readingKey THEN Append(keyBuffer, queryString[i]) ELSE keyBuffer,
                        IF readingKey THEN valueBuffer ELSE Append(valueBuffer, queryString[i]),
                        readingKey)

\* as parseQuery, but a separator that ends the string is dropped first
parseQueryTrailingSeparator(queryString, convertValues) ==
    IF queryString # <<>> /\ queryString[Len(queryString)] \in {"&", ";"}
    THEN ParseQueryLoop(SubSeq(queryString, 1, Len(queryString) - 1), convertValues,
                        1, EmptyObj, <<>>, <<>>, TRUE)
    ELSE ParseQueryLoop(queryString, convertValues, 1, EmptyObj, <<>>, <<>>, TRUE)

\* a string with its well-formed escapes replaced by their characters
RECURSIVE Unescaped(_)
Unescaped(str) ==
    IF str = <<>> THEN <<>>
    ELSE IF /\ Head(str) = "%"
            /\ Len(str) >= 3
            /\ str[2] \in Digits \cup HexLetters
            /\ str[3] \in Digits \cup HexLetters
    THEN <<FromCharCode(str[2], str[3])>> \o Unescaped(SubSeq(str, 4, Len(str)))
    ELSE <<Head(str)>> \o Unescaped(Tail(str))

\* as parseQuery, but the escapes are decoded before the string is read
parseQueryUnescapedFirst(queryString, convertValues) ==
    ParseQueryLoop(Unescaped(queryString), convertValues, 1, EmptyObj, <<>>, <<>>, TRUE)

\* a query string with every "=" after the first of its entry written as the
\* escape %3D; inValue tells that the entry's first "=" has been passed
RECURSIVE LaterEqualsEscaped(_, _)
LaterEqualsEscaped(str, inValue) ==
    IF str = <<>> THEN <<>>
    ELSE IF Head(str) \in {"&", ";"} THEN <<Head(str)>> \o LaterEqualsEscaped(Tail(str), FALSE)
    ELSE IF Head(str) = "=" /\ inValue THEN <<"%", "3", "D">> \o LaterEqualsEscaped(Tail(str), TRUE)
    ELSE IF Head(str) = "=" THEN <<"=">> \o LaterEqualsEscaped(Tail(str), TRUE)
    ELSE <<Head(str)>> \o LaterEqualsEscaped(Tail(str), inValue)

\* as parseQuery, but only the first "=" of an entry separates its key from its
\* value and the later ones are appended to the value
parseQueryLaterEqualsKept(queryString, convertValues) ==
    ParseQueryLoop(LaterEqualsEscaped(queryString, FALSE), convertValues,
                   1, EmptyObj, <<>>, <<>>, TRUE)

parseQuery(queryString, convertValues) ==
    ParseQueryLoop(queryString, convertValues, 1, EmptyObj, <<>>, <<>>, TRUE)

\* the loop of cookieParser over the header from character i (counted from 1)
\* and the check after it; Null stands for reportInvalidSyntax()
RECURSIVE ParseCookieLoop(_, _, _, _, _, _)
ParseCookieLoop(cookieString, i, cookies, keyBuffer, valueBuffer, readingKey) ==
    IF i > Len(cookieString)
    THEN IF cookieString[Len(cookieString)] # ";"
         THEN IF valueBuffer = <<>> \/ keyBuffer = <<>> THEN Null
              ELSE Object(Put(cookies, keyBuffer, ConvertCookieValue(valueBuffer)))
         ELSE Object(cookies)
    ELSE IF readingKey /\ cookieString[i] = "="
    THEN IF keyBuffer = <<>> THEN Null
         ELSE ParseCookieLoop(cookieString, i + 1, cookies, keyBuffer, valueBuffer, FALSE)
    ELSE IF cookieString[i] = ";"
    THEN IF keyBuffer = <<>> THEN Null
         ELSE ParseCookieLoop(cookieString, i + 2,
                              Put(cookies, keyBuffer, ConvertCookieValue(valueBuffer)),
                              <<>>, <<>>, TRUE)
    ELSE ParseCookieLoop(cookieString, i + 1, cookies,
                         IF readingKey THEN Append(keyBuffer, cookieString[i]) ELSE keyBuffer,
                         IF readingKey THEN valueBuffer ELSE Append(valueBuffer, cookieString[i]),
                         readingKey)

\* as ParseCookies, but the first character of the header is passed over
ParseCookiesFromSecond(cookieString) ==
    IF cookieString = <<>> THEN Object(EmptyObj)
    ELSE ParseCookieLoop(cookieString, 2, EmptyObj, <<>>, <<>>, TRUE)

\* as ParseCookies, but the escapes of the header are decoded first
ParseCookiesUnescaped(cookieString) ==
    IF cookieString = <<>> THEN Object(EmptyObj)
    ELSE ParseCookieLoop(Unescaped(cookieString), 1, EmptyObj, <<>>, <<>>, TRUE)

\* what cookieParser makes of the cookie header: no header or an empty one
\* gives an empty object
ParseCookies(cookieString) ==
    IF cookieString = <<>> THEN Object(EmptyObj)
    ELSE ParseCookieLoop(cookieString, 1, EmptyObj, <<>>, <<>>, TRUE)

-----------------------------------------------------------------------------
(* The built-in middlewares of setupMiddlewares(): redirect adder, body parser,
   cookie parser, query parser, in this order in the global list *)

\* what the parsers read of a request: the text after "?" in req.url when
\* there is one, the cookie header (empty when absent), the content-type
\* header when there is one, as its parts around ";", the body, and what of
\* the body the stream has delivered
IdleHttpRequest ==
    [pc |-> "idle", path |-> <<>>, method |-> "", params |-> Undefined,
     i |-> 0, mw |-> "none", resolved |-> FALSE, matched |-> Pending,
     result |-> Undefined, log |-> <<>>,
     query |-> Undefined, cookie |-> <<>>, contentType |-> Undefined,
     body |-> <<>>, received |-> <<>>, ended |-> FALSE,
     parsed |-> [query |-> Undefined, cookies |-> Undefined, body |-> Undefined]]

\* exports.setupMiddlewares() with its defaults: the four are appended
SetupMiddlewares ==
    /\ middlewares' = middlewares + 4
    /\ lastOp' = Op("setupMiddlewares", <<>>, "undefined", NoTable, searchMode)
    /\ UNCHANGED <<searchMode, routes, fallback, responses, errorListeners,
                   reqs, fnIn, fnOut>>

\* requestHandler up to the first await, for a request with headers and a body
ArriveWith(r, url, method, query, cookie, contentType, body) ==
    /\ reqs[r].pc = "idle"
    /\ reqs' = [reqs EXCEPT ![r] =
                   ExecMiddlewares([@ EXCEPT !.path = NormalizePath(url), !.method = method,
                                             !.query = query, !.cookie = cookie,
                                             !.contentType = contentType, !.body = body],
                                   "global", middlewares)]
    /\ lastOp' = Op("requestHandler", <<>>, "undefined", NoTable, searchMode)
    /\ UNCHANGED <<searchMode, routes, middlewares, fallback, responses,
                   errorListeners, fnIn, fnOut>>

\* the literals "400" and "415" of the parsers
StatusText(status) == IF status = 400 THEN "400" ELSE "415"

\* responses[code] || status
ResponseText(code, status) == IF responses[code] = "" THEN status ELSE responses[code]

\* a middleware writes the response and returns without calling done
Respond(rq, status, code) ==
    [rq EXCEPT !.mw = "halted",
               !.log = Append(@, ResponseEvent(status, ResponseText(code, StatusText(status))))]

\* the middleware at index i of the global list is running
Running(r, i) ==
    /\ reqs[r].pc = "global"
    /\ reqs[r].mw = "running"
    /\ reqs[r].i = i

\* redirectToResponse: adds res.redirect and calls done
RedirectAdder(r) ==
    /\ Running(r, 0)
    /\ reqs' = [reqs EXCEPT ![r] = callNext(@, middlewares)]
    /\ UNCHANGED <<searchMode, routes, middlewares, fallback, responses,
                   errorListeners, lastOp, fnIn, fnOut>>

\* bodyParser up to its return: done at once without a content-type header,
\* otherwise listeners on the body stream
BodyParser(r) ==
    /\ Running(r, 1)
    /\ reqs' = [reqs EXCEPT ![r] =
                   IF ~@.contentType.defined \/ @.contentType.value = <<>>
                   THEN callNext(@, middlewares)
                   ELSE [@ EXCEPT !.mw = "listening"]]
    /\ UNCHANGED <<searchMode, routes, middlewares, fallback, responses,
                   errorListeners, lastOp, fnIn, fnOut>>

\* req.on("data"): the next n characters of the body arrive
BodyData(r, n) ==
    /\ reqs[r].mw = "listening"
    /\ ~reqs[r].ended
    /\ Len(reqs[r].received) + n <= Len(reqs[r].body)
    /\ reqs' = [reqs EXCEPT ![r].received =
                   @ \o SubSeq(reqs[r].body, Len(@) + 1, Len(@) + n)]
    /\ UNCHANGED <<searchMode, routes, middlewares, fallback, responses,
                   errorListeners, lastOp, fnIn, fnOut>>

\* the part of the content-type header before its first ";"
MediaType(contentType) ==
    IF Includes(contentType, ";")
    THEN LET separatorIndex == CHOOSE k \in 1..Len(contentType) :
                                   /\ contentType[k] = ";"
                                   /\ \A j \in 1..(k - 1) : contentType[j] # ";"
         IN  SubSeq(contentType, 1, separatorIndex - 1)
    ELSE contentType

\* JSON.parse(body.trim()) for the bodies of the model: "{}" and decimal
\* numerals are JSON, the other bodies make it throw (Null)
JsonParse(body) ==
    LET t == Trim(body)
    IN  IF t = <<"{", "}">> THEN Object(EmptyObj)
        ELSE IF t # <<>> /\ (\A k \in 1..Len(t) : t[k] \in Digits) /\ (Len(t) = 1 \/ t[1] # "0")
        THEN Object(NumberValue(NumeralValue(t, 10)))
        ELSE Null

\* req.on("end") of bodyParser
BodyEnd(r) ==
    /\ reqs[r].mw = "listening"
    /\ ~reqs[r].ended
    /\ reqs[r].received = reqs[r].body
    /\ LET rq == [reqs[r] EXCEPT !.ended = TRUE, !.mw = "running"]
           type == MediaType(rq.contentType.value)
           decoded == IF type = <<"application/x-www-form-urlencoded">>
                      THEN parseQuery(rq.received, TRUE)
                      ELSE JsonParse(rq.received)
       IN  reqs' = [reqs EXCEPT ![r] =
                       IF type \notin {<<"application/x-www-form-urlencoded">>,
                                       <<"application/json">>}
                       THEN Respond(rq, 415, "415")
                       ELSE IF decoded.null
                       THEN Respond(rq, 400, "400b")
                       ELSE callNext([rq EXCEPT !.parsed.body = Defined(decoded.object)],
                                     middlewares)]
    /\ UNCHANGED <<searchMode, routes, middlewares, fallback, responses,
                   errorListeners, lastOp, fnIn, fnOut>>

\* cookieParser
CookieParser(r) ==
    /\ Running(r, 2)
    /\ LET rq == reqs[r]
           cookies == ParseCookies(rq.cookie)
       IN  reqs' = [reqs EXCEPT ![r] =
                       IF cookies.null THEN Respond(rq, 400, "400c")
                       ELSE callNext([rq EXCEPT !.parsed.cookies = Defined(cookies.object)],
                                     middlewares)]
    /\ UNCHANGED <<searchMode, routes, middlewares, fallback, responses,
                   errorListeners, lastOp, fnIn, fnOut>>

\* queryParser
QueryParser(r) ==
    /\ Running(r, 3)
    /\ LET rq == reqs[r]
           query == IF rq.query.defined THEN parseQuery(rq.query.value, TRUE) ELSE Null
       IN  reqs' = [reqs EXCEPT ![r] =
                       IF ~rq.query.defined THEN callNext(rq, middlewares)
                       ELSE IF query.null THEN Respond(rq, 400, "400q")
                       ELSE callNext([rq EXCEPT !.parsed.query = Defined(query.object)],
                                     middlewares)]
    /\ UNCHANGED <<searchMode, routes, middlewares, fallback, responses,
                   errorListeners, lastOp, fnIn, fnOut>>

-----------------------------------------------------------------------------
(* The matcher on bounded inputs *)

MatchRouteSegs == {<<"f">>, <<"*">>, <<"{", "x", "}">>, <<"{", "y", "}">>}
MatchReqSegs == {<<"f">>, <<"a">>, <<"F">>}

MatchRoutePaths ==
    {Join(s) : s \in SeqsUpTo(MatchRouteSegs, MaxRouteSegs) \ {<<>>}}
        \cup {<<"/">>, <<"/", "f", "/">>, <<"/", "{", "}">>, <<"/", "{">>,
              <<"/", "f", "/", "/", "{", "x", "}">>}

MatchReqPaths ==
    {Join(s) : s \in SeqsUpTo(MatchReqSegs, MaxReqSegs) \ {<<>>}}
        \cup {<<"/">>, <<"/", "f", "/">>, <<"/", "{">>, <<"/", "f", "/", "/", "a">>}

NoOut == [result |-> "none"]

InitRouterIdle ==
    /\ searchMode = "dynamic"
    /\ routes = EmptyArray
    /\ middlewares = 0
    /\ fallback = "default"
    /\ responses = [c \in {"404", "500"} |-> "default"]
    /\ errorListeners = FALSE
    /\ reqs = [r \in Requests |-> IdleRequest]
    /\ lastOp = Op("init", <<>>, "undefined", NoTable, "dynamic")

InitMatch ==
    /\ InitRouterIdle
    /\ fnIn \in [op : {"match"}, route : MatchRoutePaths, req : MatchReqPaths]
    /\ fnOut = NoOut

ApplyMatch ==
    /\ fnIn.op = "match"
    /\ fnOut = NoOut
    /\ fnOut' = MatchRoute(splitWithoutEmptyStrings(fnIn.req, "/"), fnIn.route)
    /\ UNCHANGED <<fnIn, routerVars>>

NextMatch == ApplyMatch

SpecMatch == InitMatch /\ [][NextMatch]_vars

-----------------------------------------------------------------------------
(* The tokenizer on bounded inputs, and the matcher on the request for "/" *)

SplitChars == {"/", "a", "b"}
SplitStrings == SeqsUpTo(SplitChars, MaxSplitLen)

RootRoutePaths ==
    {<<"/">>, <<"/", "/">>, <<"/", "*">>, <<"/", "{", "x", "}">>, <<"/", "{", "}">>,
     <<"/", "f">>, <<"/", "{">>, <<"/", "*", "/", "f">>, <<"/", "{", "x", "}", "/", "*">>,
     <<"/", "f", "/", "*">>}

InitSplit ==
    /\ InitRouterIdle
    /\ fnIn \in [op : {"split"}, data : SplitStrings]
                \cup [op : {"match"}, route : RootRoutePaths, req : {<<"/">>}]
    /\ fnOut = NoOut

ApplySplit ==
    /\ fnIn.op = "split"
    /\ fnOut = NoOut
    /\ fnOut' = [segments |-> splitWithoutEmptyStrings(fnIn.data, "/")]
    /\ UNCHANGED <<fnIn, routerVars>>

NextSplit == ApplySplit \/ ApplyMatch

SpecSplit == InitSplit /\ [][NextSplit]_vars

-----------------------------------------------------------------------------
(* The field parsers on bounded inputs *)

\* longest string of the exhaustive inputs
MaxFieldLen == 3

QueryChars == {"a", "=", "&", "%", "1"}
CookieChars == {"k", "=", ";", " ", "1"}

QueryExamples ==
    {<<"a", "=", "1", "&", "b", "=", "t", "r", "u", "e", "&", "c", "=", "x">>,
    <<"a", "=", "%", "4", "1">>,
    <<"=", "1">>,
    <<"a">>,
    <<"a", "=">>,
    <<"a", "=", "f", "a", "l", "s", "e">>,
    <<"a", "=", "0", "x", "1", "f">>,
    <<"a", "=", " ">>,
    <<"a", "=", "%", "2", "0">>,
    <<"a", "=", "1", ";", "b", "=", "2">>,
    <<"a", "=", "1", "2">>,
    <<"a", "=", "1", "x">>,
    <<"a", "=", "t", "r", "u">>,
    <<"a", "=", "b", "=", "c">>,
    <<"a", "=", "1", "&", "a", "=", "x">>,
    <<"a", "=", "%", "4">>,
    <<"a", "&", "b", "=", "0", "1">>,
    <<"a", "=", "1", "&", "&", "b", "=", "2">>,
    <<"a", "=", "1", "&">>,
    <<"a", "=", "1", ";">>,
    <<"a", "=", "%", "4", "x">>,
    <<"a", "=", "1", "%">>,
    <<"a", "=", "%", "2", "6", "b">>,
    <<"a", "=", "%", "3", "B", "b", "&", "c", "=", "%", "3", "D">>,
    <<"a", "%", "3", "D", "b", "=", "1">>,
    <<"%", "2", "6", "=", "1">>,
    <<"a", "=", "1", "&", "b", "=", "=", "x">>}

CookieExamples ==
    {<<"k", "=", "1", ";", " ", "j", "=", "t", "r", "u", "e", ";">>,
    <<"k", "=", "1", ";", " ", "j", "=", "t", "r", "u", "e">>,
    <<"k", "=">>,
    <<"k", "=", ";">>,
    <<"k", "=", "x">>,
    <<"k", "=", "0", "x", "1", "f">>,
    <<"k", "=", " ", ";">>,
    <<"k", "=", "f", "a", "l", "s", "e", ";", " ", "j", "=", "1", "2">>,
    <<"k", "=", "1", ";", "j", "=", "2">>,
    <<"k", "=", "1", ";", " ">>,
    <<"=", "1", ";">>,
    <<"k", "=", "1", ";", " ", "k", "=", "x">>,
    <<"k", "=", "a", "=", "b", ";">>,
    <<"k", "=", "%", "4", "1", ";">>,
    <<"k", "=", "%", "4", ";">>,
    <<"%", "4", "1", "=", "1", ";">>,
    <<"k", "=", "%", "3", "B", "x">>,
    <<"a", "=", "b", "=", "c">>,
    <<"k", "=", "1", ";", " ", "j", "=", "=", "x", ";">>}

QueryStrings == SeqsUpTo(QueryChars, MaxFieldLen) \cup QueryExamples
CookieStrings == SeqsUpTo(CookieChars, MaxFieldLen) \cup CookieExamples

InitParse ==
    /\ InitRouterIdle
    /\ fnIn \in [op : {"parseQuery"}, data : QueryStrings, convertValues : BOOLEAN]
                \cup [op : {"cookieParser"}, data : CookieStrings]
    /\ fnOut = NoOut

ApplyParseQuery ==
    /\ fnIn.op = "parseQuery"
    /\ fnOut = NoOut
    /\ fnOut' = parseQuery(fnIn.data, fnIn.convertValues)
    /\ UNCHANGED <<routerVars, fnIn>>

ApplyCookieParser ==
    /\ fnIn.op = "cookieParser"
    /\ fnOut = NoOut
    /\ fnOut' = ParseCookies(fnIn.data)
    /\ UNCHANGED <<routerVars, fnIn>>

NextParse == ApplyParseQuery \/ ApplyCookieParser

SpecParse == InitParse /\ [][NextParse]_vars

-----------------------------------------------------------------------------
(* The route table under route(), addHandler(), reorder() and setSearchMode(),
   then requests without middlewares *)

TablePathInputs == {<<"a">>, <<"/", "a", "/">>, <<"/", "{", "x", "}">>, <<"/", "*">>}
TablePaths == {NormalizePath(p) : p \in TablePathInputs}
TableMethods == {"get", "ALL"}
ModeInputs == {"dynamic", "static", "fast"}

NoIn == [op |-> "none"]

Init ==
    /\ InitRouterIdle
    /\ fnIn = NoIn
    /\ fnOut = NoOut

RoutingUrls == {<<"/", "a">>, <<"/", "a", "/">>, <<"/", "b">>, <<"/", "a", "/", "b">>}
RoutingMethods == {"GET", "get", "POST"}

NextRouting ==
    \/ \E p \in TablePathInputs, c \in BOOLEAN : SetupPhase /\ Route(p, c)
    \/ \E p \in TablePaths, m \in TableMethods : SetupPhase /\ AddHandler(p, m, 0)
    \/ SetupPhase /\ Reorder
    \/ \E m \in ModeInputs, k \in BOOLEAN : SetupPhase /\ SetSearchMode(m, k)
    \/ \E r \in Requests, u \in RoutingUrls, m \in RoutingMethods : Arrive(r, u, m)
    \/ \E r \in Requests : RouteLookup(r)
    \/ \E r \in Requests : MethodChain(r)
    \/ \E r \in Requests : Invoke(r)

SpecRouting == Init /\ [][NextRouting]_vars

-----------------------------------------------------------------------------
(* One route behind the three middleware chains *)

PipelinePath == <<"/", "a">>
PipelineUrls == {<<"/", "a">>, <<"/", "b">>}
SplitResults == (0 - 1)..(MaxCands + 1)

Next ==
    \/ SetupPhase /\ Route(PipelinePath, TRUE)
    \/ \E n \in 0..1 : SetupPhase /\ AddHandler(PipelinePath, "GET", n)
    \/ \E n \in 1..MaxCands : SetupPhase /\ AddSplitHandler(PipelinePath, "GET", n)
    \/ SetupPhase /\ AddMiddleware(1)
    \/ SetupPhase /\ RouteAddMiddleware(PipelinePath, 1)
    \/ SetupPhase /\ AddMiddlewareToMethod(PipelinePath, "GET", 1)
    \/ \E k \in BOOLEAN : SetupPhase /\ SetSearchMode("static", k)
    \/ \E h \in {"custom", "none"} : SetupPhase /\ SetFallback(h)
    \/ \E c \in {"404", "500"} : SetupPhase /\ SetResponse(c, "custom")
    \/ SetupPhase /\ AddEventListener
    \/ \E r \in Requests, u \in PipelineUrls : Arrive(r, u, "GET")
    \/ \E r \in Requests : CallNext(r)
    \/ \E r \in Requests : Halt(r)
    \/ \E r \in Requests : RouteLookup(r)
    \/ \E r \in Requests : MethodChain(r)
    \/ \E r \in Requests : Invoke(r)
    \/ \E r \in Requests, result \in SplitResults : SplitterReturns(r, result)

Spec == Init /\ [][Next]_vars

-----------------------------------------------------------------------------
(* One route with handlers for several methods, in both search modes *)

MethodInputs == {"get", "POST", "ALL"}
RequestMethods == {"GET", "get", "POST", "PUT"}

NextMethods ==
    \/ SetupPhase /\ Route(PipelinePath, TRUE)
    \/ \E m \in MethodInputs, n \in 0..1 : SetupPhase /\ AddHandler(PipelinePath, m, n)
    \/ \E m \in {"static", "dynamic"} : SetupPhase /\ SetSearchMode(m, TRUE)
    \/ \E r \in Requests, m \in RequestMethods : Arrive(r, PipelinePath, m)
    \/ \E r \in Requests : CallNext(r)
    \/ \E r \in Requests : RouteLookup(r)
    \/ \E r \in Requests : MethodChain(r)
    \/ \E r \in Requests : Invoke(r)

SpecMethods == Init /\ [][NextMethods]_vars

-----------------------------------------------------------------------------
(* The pipeline with its scheduling: a settled promise's continuation runs, a
   running middleware continues unless it halts, a called splitter returns *)

NextLive ==
    \/ SetupPhase /\ Route(PipelinePath, TRUE)
    \/ SetupPhase /\ AddHandler(PipelinePath, "GET", 0)
    \/ \E n \in 1..MaxCands : SetupPhase /\ AddSplitHandler(PipelinePath, "GET", n)
    \/ SetupPhase /\ AddMiddleware(1)
    \/ SetupPhase /\ RouteAddMiddleware(PipelinePath, 1)
    \/ SetupPhase /\ AddMiddlewareToMethod(PipelinePath, "GET", 1)
    \/ SetupPhase /\ SetSearchMode("static", TRUE)
    \/ \E h \in {"custom", "none"} : SetupPhase /\ SetFallback(h)
    \/ SetupPhase /\ AddEventListener
    \/ \E r \in Requests, u \in PipelineUrls : Arrive(r, u, "GET")
    \/ \E r \in Requests : CallNext(r)
    \/ \E r \in Requests : Halt(r)
    \/ \E r \in Requests : RouteLookup(r)
    \/ \E r \in Requests : MethodChain(r)
    \/ \E r \in Requests : Invoke(r)
    \/ \E r \in Requests, result \in SplitResults : SplitterReturns(r, result)

Fairness ==
    \A r \in Requests :
        /\ WF_vars(CallNext(r))
        /\ WF_vars(RouteLookup(r))
        /\ WF_vars(MethodChain(r))
        /\ WF_vars(Invoke(r))
        /\ WF_vars(\E result \in SplitResults : SplitterReturns(r, result))

SpecLive == Init /\ [][NextLive]_vars /\ Fairness

-----------------------------------------------------------------------------
(* Two requests in flight on a parameterized route, setup being over *)

ConcRequests == {"r1", "r2"}
ConcPath == <<"/", "{", "x", "}">>
ConcUrls == {<<"/", "a">>, <<"/", "b">>}

InitConc ==
    /\ searchMode = "dynamic"
    /\ routes = EmptyArray
    /\ middlewares = 0
    /\ fallback = "default"
    /\ responses = [c \in {"404", "500"} |-> "default"]
    /\ errorListeners = FALSE
    /\ reqs = [r \in ConcRequests |-> IdleRequest]
    /\ lastOp = Op("init", <<>>, "undefined", NoTable, "dynamic")
    /\ fnIn = NoIn
    /\ fnOut = NoOut

\* at most one middleware in each chain
NextConc ==
    \/ SetupPhase /\ Route(ConcPath, TRUE)
    \/ \E n \in 0..1 : SetupPhase /\ AddHandler(ConcPath, "GET", n)
    \/ SetupPhase /\ middlewares = 0 /\ AddMiddleware(1)
    \/ SetupPhase /\ TableHas(routes, ConcPath)
          /\ TableGet(routes, ConcPath).middlewares = 0 /\ RouteAddMiddleware(ConcPath, 1)
    \/ \E r \in ConcRequests, u \in ConcUrls : Arrive(r, u, "GET")
    \/ \E r \in ConcRequests : CallNext(r)
    \/ \E r \in ConcRequests : Halt(r)
    \/ \E r \in ConcRequests : RouteLookup(r)
    \/ \E r \in ConcRequests : MethodChain(r)
    \/ \E r \in ConcRequests : Invoke(r)

\* the request's next step when it is not waiting for a halted middleware; at
\* most one of the four is enabled at a time
Continue(r) == CallNext(r) \/ RouteLookup(r) \/ MethodChain(r) \/ Invoke(r)

FairnessConc == \A r \in ConcRequests : WF_vars(Continue(r))

SpecConc == InitConc /\ [][NextConc]_vars /\ FairnessConc

-----------------------------------------------------------------------------
(* Requests through the four built-in middlewares, then one route *)

ParsersPath == <<"/", "a">>
ParsersUrls == {<<"/", "a">>, <<"/", "b">>}
ParserCodes == {"400b", "400q", "400c", "415"}
ResponseTexts == {"custom", ""}

\* the part of req.url after its first "?", when it has one
UrlQueries == {Undefined, Defined(<<"a", "=", "1">>), Defined(<<"=", "1">>), Defined(<<>>)}

\* req.headers.cookie, "" standing for no header as well
CookieHeaders == {<<>>, <<"k", "=", "1">>, <<"=", "1">>}

\* req.headers["content-type"], in its parts around ";"
ContentTypes ==
    {Undefined,
     Defined(<<"application/json">>),
     Defined(<<"application/json", ";", " charset=utf-8">>),
     Defined(<<"application/x-www-form-urlencoded">>),
     Defined(<<"text/plain">>)}

Bodies == {<<>>, <<"{", "}">>, <<"a", "=", "1">>, <<"{">>}

InitParsers ==
    /\ searchMode = "dynamic"
    /\ routes = EmptyArray
    /\ middlewares = 0
    /\ fallback = "default"
    /\ responses = [c \in {"400b", "400q", "400c", "404", "415", "500"} |-> "default"]
    /\ errorListeners = FALSE
    /\ reqs = [r \in Requests |-> IdleHttpRequest]
    /\ lastOp = Op("init", <<>>, "undefined", NoTable, "dynamic")
    /\ fnIn = NoIn
    /\ fnOut = NoOut

\* setupMiddlewares() once; at most one response text replaced
NextParsers ==
    \/ SetupPhase /\ middlewares = 0 /\ SetupMiddlewares
    \/ \E c \in ParserCodes, t \in ResponseTexts :
           /\ SetupPhase
           /\ \A d \in DOMAIN responses : responses[d] = "default"
           /\ SetResponse(c, t)
    \/ SetupPhase /\ Route(ParsersPath, TRUE)
    \/ SetupPhase /\ AddHandler(ParsersPath, "POST", 0)
    \/ \E r \in Requests, u \in ParsersUrls, q \in UrlQueries, c \in CookieHeaders,
          t \in ContentTypes, b \in Bodies :
           middlewares = 4 /\ ArriveWith(r, u, "POST", q, c, t, b)
    \/ \E r \in Requests : RedirectAdder(r)
    \/ \E r \in Requests : BodyParser(r)
    \/ \E r \in Requests, n \in 1..2 : BodyData(r, n)
    \/ \E r \in Requests : BodyEnd(r)
    \/ \E r \in Requests : CookieParser(r)
    \/ \E r \in Requests : QueryParser(r)
    \/ \E r \in Requests : RouteLookup(r)
    \/ \E r \in Requests : MethodChain(r)
    \/ \E r \in Requests : Invoke(r)

SpecParsers == InitParsers /\ [][NextParsers]_vars

-----------------------------------------------------------------------------
(* The route table under the setup operations alone *)

NextAccessor ==
    \/ \E p \in TablePathInputs, c \in BOOLEAN : Route(p, c)
    \/ \E p \in TablePaths : AddHandler(p, "get", 0)
    \/ Reorder
    \/ \E m \in ModeInputs, k \in BOOLEAN : SetSearchMode(m, k)

SpecAccessor == Init /\ [][NextAccessor]_vars

-----------------------------------------------------------------------------
(* Parameterized routes tried one after another in dynamic mode *)

ParamPaths ==
    {<<"/", "{", "x", "}", "/", "f">>,
     <<"/", "{", "y", "}", "/", "{", "z", "}">>,
     <<"/", "{", "x", "}", "/", "*">>,
     <<"/", "{", "x", "}", "/", "*", "/", "{", "w", "}">>,
     <<"/", "a">>}

ParamUrls ==
    {<<"/", "a", "/", "b">>, <<"/", "a", "/", "f">>, <<"/", "a">>,
     <<"/", "c", "/", "d", "/", "e">>}

NextParams ==
    \/ \E p \in ParamPaths : SetupPhase /\ Route(p, TRUE)
    \/ \E p \in ParamPaths : SetupPhase /\ AddHandler(p, "GET", 0)
    \/ \E r \in Requests, u \in ParamUrls : Arrive(r, u, "GET")
    \/ \E r \in Requests : RouteLookup(r)
    \/ \E r \in Requests : MethodChain(r)
    \/ \E r \in Requests : Invoke(r)

SpecParams == Init /\ [][NextParams]_vars

-----------------------------------------------------------------------------
(* Middlewares that invoke their continuation any number of times: each call
   of execMiddlewares has its own counter i and its own promise *)

Chains == {"global", "route", "method"}

ThrowEvent(chain, i) == [e |-> "throw", chain |-> chain, i |-> i]

IdleRepeatRequest ==
    [pc |-> "idle", path |-> <<>>, method |-> "", params |-> Undefined,
     matched |-> Pending, calls |-> 0,
     i |-> [c \in Chains |-> 0], resolved |-> [c \in Chains |-> FALSE], log |-> <<>>]

\* execMiddlewares(middlewares, req, res) with its own i and promise
StartChain(rq, chain, length) ==
    IF length = 0
    THEN [rq EXCEPT !.pc = chain, !.resolved[chain] = TRUE]
    ELSE [rq EXCEPT !.pc = chain, !.log = Append(@, MwEvent(chain, 0))]

\* as callNextIn, but the next middleware is the one after the caller
callNextAfterCaller(rq, chain, k, length) ==
    IF k + 1 = length
    THEN [rq EXCEPT !.i[chain] = k + 1, !.resolved[chain] = TRUE,
                    !.log = Append(@, NextEvent(chain, k))]
    ELSE [rq EXCEPT !.i[chain] = k + 1,
                    !.log = @ \o <<NextEvent(chain, k), MwEvent(chain, k + 1)>>]

\* callNext of the chain's execMiddlewares, called by its middleware k: ++i,
\* then resolve() at the end of the list (a promise resolves once), a call of
\* middlewares[i] inside it, and a TypeError thrown to the caller past it
callNextIn(rq, chain, k, length) ==
    LET i == rq.i[chain] + 1
    IN  IF i = length
        THEN [rq EXCEPT !.i[chain] = i, !.resolved[chain] = TRUE,
                        !.log = Append(@, NextEvent(chain, k))]
        ELSE IF i < length
        THEN [rq EXCEPT !.i[chain] = i,
                        !.log = @ \o <<NextEvent(chain, k), MwEvent(chain, i)>>]
        ELSE [rq EXCEPT !.i[chain] = i,
                        !.log = @ \o <<NextEvent(chain, k), ThrowEvent(chain, i)>>]

\* the list a chain of the request runs
ChainLengthOf(rq, chain) ==
    CASE chain = "global" -> middlewares
      [] chain = "route" -> rq.matched.route.middlewares
      [] chain = "method" -> rq.matched.handler.middlewares

\* requestHandler up to the first await
ArriveRepeat(r, url, method) ==
    /\ reqs[r].pc = "idle"
    /\ reqs' = [reqs EXCEPT ![r] =
                   StartChain([@ EXCEPT !.path = NormalizePath(url), !.method = method],
                              "global", middlewares)]
    /\ lastOp' = Op("requestHandler", <<>>, "undefined", NoTable, searchMode)
    /\ UNCHANGED <<searchMode, routes, middlewares, fallback, responses,
                   errorListeners, fnIn, fnOut>>

\* a middleware that has been invoked calls the continuation it was given
CallNextIn(r, chain, k) ==
    /\ \E n \in 1..Len(reqs[r].log) : reqs[r].log[n] = MwEvent(chain, k)
    /\ reqs[r].calls < MaxCalls
    /\ reqs' = [reqs EXCEPT ![r] =
                   callNextIn([@ EXCEPT !.calls = @ + 1], chain, k, ChainLengthOf(@, chain))]
    /\ UNCHANGED <<searchMode, routes, middlewares, fallback, responses,
                   errorListeners, lastOp, fnIn, fnOut>>

\* requestHandler after the await of the global chain
LookupRepeat(r) ==
    /\ reqs[r].pc = "global"
    /\ reqs[r].resolved["global"]
    /\ LET rq == reqs[r]
           l == Lookup(routes, searchMode, rq.path, ToUpperCase(rq.method))
           looked == [rq EXCEPT !.matched = l, !.log = Append(@, LookupEvent(l.found))]
       IN  reqs' = [reqs EXCEPT ![r] =
                       IF l.found
                       THEN StartChain(
                                [looked EXCEPT !.params = IF searchMode = "dynamic"
                                                          THEN Defined(l.params) ELSE @],
                                "route", l.route.middlewares)
                       ELSE [looked EXCEPT
                                !.pc = "done",
                                !.log = @ \o (IF fallback = "default"
                                              THEN <<FallbackEvent(fallback),
                                                     ResponseEvent(404, responses["404"])>>
                                              ELSE IF fallback = "none" THEN <<>>
                                              ELSE <<FallbackEvent(fallback)>>)]]
    /\ UNCHANGED <<searchMode, routes, middlewares, fallback, responses,
                   errorListeners, lastOp, fnIn, fnOut>>

\* requestHandler after the await of the route's chain
MethodChainRepeat(r) ==
    /\ reqs[r].pc = "route"
    /\ reqs[r].resolved["route"]
    /\ reqs' = [reqs EXCEPT ![r] =
                   StartChain(@, "method", @.matched.handler.middlewares)]
    /\ UNCHANGED <<searchMode, routes, middlewares, fallback, responses,
                   errorListeners, lastOp, fnIn, fnOut>>

\* requestHandler after the await of the method's chain: handler.handle
InvokeRepeat(r) ==
    /\ reqs[r].pc = "method"
    /\ reqs[r].resolved["method"]
    /\ LET rq == reqs[r]
       IN  reqs' = [reqs EXCEPT ![r] =
                       [rq EXCEPT !.pc = "done",
                                  !.log = Append(@, HandlerEvent(rq.matched.route.path,
                                                                 rq.matched.key))]]
    /\ UNCHANGED <<searchMode, routes, middlewares, fallback, responses,
                   errorListeners, lastOp, fnIn, fnOut>>

InitRepeat ==
    /\ searchMode = "dynamic"
    /\ routes = EmptyArray
    /\ middlewares = 0
    /\ fallback = "default"
    /\ responses = [c \in {"404", "500"} |-> "default"]
    /\ errorListeners = FALSE
    /\ reqs = [r \in Requests |-> IdleRepeatRequest]
    /\ lastOp = Op("init", <<>>, "undefined", NoTable, "dynamic")
    /\ fnIn = NoIn
    /\ fnOut = NoOut

NextRepeat ==
    \/ SetupPhase /\ Route(PipelinePath, TRUE)
    \/ \E n \in 0..1 : SetupPhase /\ AddHandler(PipelinePath, "GET", n)
    \/ SetupPhase /\ AddMiddleware(1)
    \/ SetupPhase /\ RouteAddMiddleware(PipelinePath, 1)
    \/ \E r \in Requests, u \in PipelineUrls : ArriveRepeat(r, u, "GET")
    \/ \E r \in Requests, c \in Chains, k \in 0..(MaxMwLen - 1) : CallNextIn(r, c, k)
    \/ \E r \in Requests : LookupRepeat(r)
    \/ \E r \in Requests : MethodChainRepeat(r)
    \/ \E r \in Requests : InvokeRepeat(r)

SpecRepeat == InitRepeat /\ [][NextRepeat]_vars

-----------------------------------------------------------------------------
(* The route table changed while a request is suspended in its chains *)

LatePaths == {<<"/", "a">>, <<"/", "{", "x", "}">>}
LateUrl == <<"/", "a">>

\* the operations that replace entries or rebuild the table run at any time;
\* Route.addMiddleware pushes onto the array a running chain holds and is kept
\* to the setup
NextLate ==
    \/ \E p \in LatePaths : Route(p, TRUE)
    \/ \E p \in LatePaths, n \in 0..1 : AddHandler(p, "GET", n)
    \/ Reorder
    \/ \E m \in {"dynamic", "static"} : SetSearchMode(m, TRUE)
    \/ \E p \in LatePaths : SetupPhase /\ RouteAddMiddleware(p, 1)
    \/ \E r \in Requests : Arrive(r, LateUrl, "GET")
    \/ \E r \in Requests : CallNext(r)
    \/ \E r \in Requests : RouteLookup(r)
    \/ \E r \in Requests : MethodChain(r)
    \/ \E r \in Requests : Invoke(r)

SpecLate == Init /\ [][NextLate]_vars

-----------------------------------------------------------------------------
(* Claims about the route table *)

ProbePaths == {<<"/", "a">>, <<"/", "a", "/">>, <<"/", "b">>, <<"/", "a", "/", "b">>}
ProbeMethods == {"GET", "POST"}

\* the group reorder() puts a path in
PathGroup(path) ==
    IF Includes(path, "{") /\ Includes(path, "}") THEN 2
    ELSE IF Includes(path, "*") THEN 3
    ELSE 1

PositionIn(items, route) == CHOOSE i \in 1..Len(items) : items[i] = route

\* the route's path matches and it has a handler for the method or for "ALL"
Qualifies(route, path, upperCaseMethod) ==
    /\ MatchRoute(splitWithoutEmptyStrings(path, "/"), route.path).result
    /\ (upperCaseMethod \in DOMAIN route.handlers \/ "ALL" \in DOMAIN route.handlers)

\* the handler entry a request is dispatched to, or the fallback
Outcome(table, mode, path, upperCaseMethod) ==
    LET l == Lookup(table, mode, path, upperCaseMethod)
    IN  IF l.found THEN <<l.route.path, l.key>> ELSE <<"fallback">>

\* C4: reorder() leaves the plain routes, then the routes with both braces, then
\* the other routes with "*", each group in its former order, none added or
\* lost; then a request that a plain route and a parameterized or wildcard
\* route both qualify for (path match and a handler for the method or "ALL")
\* is served by a plain route.
C4_ReorderPartitions ==
    lastOp.op = "reorder" =>
        LET before == lastOp.routes.items
            after == routes.items
        IN  /\ routes.kind = "array"
            /\ Len(after) = Len(before)
            /\ {after[i] : i \in 1..Len(after)} = {before[i] : i \in 1..Len(before)}
            /\ \A i, j \in 1..Len(after) :
                  i < j => /\ PathGroup(after[i].path) <= PathGroup(after[j].path)
                           /\ PathGroup(after[i].path) = PathGroup(after[j].path)
                                 => PositionIn(before, after[i]) < PositionIn(before, after[j])
            /\ \A q \in ProbePaths, m \in ProbeMethods :
                  (/\ \E i \in 1..Len(after) :
                         PathGroup(after[i].path) = 1 /\ Qualifies(after[i], q, m)
                   /\ \E i \in 1..Len(after) :
                         PathGroup(after[i].path) > 1 /\ Qualifies(after[i], q, m))
                     => PathGroup(Lookup(routes, searchMode, q, m).route.path) = 1

\* "/*", "/{x}", "a" registered in this order, all serving GET: after reorder()
\* the table is "/a", "/{x}", "/*" and GET /a goes to "/a"
C4_Witness ==
    /\ lastOp.op = "reorder"
    /\ Len(lastOp.routes.items) = 3
    /\ [i \in 1..3 |-> PathGroup(lastOp.routes.items[i].path)] = <<3, 2, 1>>
    /\ [i \in 1..3 |-> PathGroup(routes.items[i].path)] = <<1, 2, 3>>
    /\ \A i \in 1..3 : Qualifies(routes.items[i], <<"/", "a">>, "GET")
    /\ Lookup(routes, searchMode, <<"/", "a">>, "GET").route.path = <<"/", "a">>

LiteralPath(path) ==
    ~Includes(path, "*") /\ ~Includes(path, "{") /\ ~Includes(path, "}")

SwitchedKeeping ==
    /\ lastOp.op = "setSearchMode"
    /\ lastOp.ret = "switched"
    /\ lastOp.args[2] = TRUE

\* C9: with only literal routes, a switch of the search mode that keeps the
\* routes dispatches every request to the same handler entry (or to the
\* fallback) as before the switch. The requests tried are those for the exact
\* path of a registered route, the narrowest reading of "every request path".
C9_SwitchKeepsDispatch ==
    (/\ SwitchedKeeping
     /\ \A i \in 1..Len(lastOp.routes.items) :
           LiteralPath(TableRoutes(lastOp.routes)[i].path))
        => \A i \in 1..Len(lastOp.routes.items), m \in ProbeMethods :
              LET q == TableRoutes(lastOp.routes)[i].path
              IN  Outcome(routes, searchMode, q, m)
                      = Outcome(lastOp.routes, lastOp.searchMode, q, m)

\* C10: the table is an array exactly in dynamic mode and an object exactly in
\* static mode; a switch that does not keep the routes leaves it empty; a
\* switch that keeps them leaves the same routes, handlers and middlewares
\* included, in the same order, each under its path.
C10_TableAgreesWithMode ==
    /\ routes.kind \in {"array", "object"}
    /\ routes.kind = "array" <=> searchMode = "dynamic"
    /\ routes.kind = "object" <=> searchMode = "static"
    /\ (lastOp.op = "setSearchMode" /\ lastOp.ret = "switched")
          => /\ searchMode = lastOp.args[1]
             /\ searchMode # lastOp.searchMode
             /\ lastOp.args[2] = FALSE => routes.items = <<>>
             /\ lastOp.args[2] = TRUE =>
                   /\ TableRoutes(routes) = TableRoutes(lastOp.routes)
                   /\ routes.kind = "object" =>
                         \A i \in 1..Len(routes.items) :
                             routes.items[i].key = routes.items[i].value.path

\* a static table of two routes with handlers was switched back to dynamic mode
\* with keepRoutes
C10_Witness ==
    /\ SwitchedKeeping
    /\ searchMode = "dynamic"
    /\ Len(routes.items) = 2
    /\ routes.items[1].path = <<"/", "{", "x", "}">>
    /\ routes.items[2].path = <<"/", "a">>
    /\ \A i \in 1..2 : DOMAIN routes.items[i].handlers # {}
    /\ TableRoutes(lastOp.routes) = routes.items

-----------------------------------------------------------------------------
(* Claims about dispatch *)

\* the request is past the route search
Looked(rq) == rq.pc \notin {"idle", "global"}

Min(S) == CHOOSE x \in S : \A y \in S : x <= y

\* C3: in dynamic mode the request is served by the first route, in table
\* order, whose path matches and which has a handler for the method or for
\* "ALL": routes lacking both are passed over, later routes are not consulted,
\* and with no such route the fallback is taken.
C3_FirstQualifyingWins ==
    \A r \in DOMAIN reqs :
        LET rq == reqs[r]
            M == ToUpperCase(rq.method)
            Q == {i \in 1..Len(routes.items) : Qualifies(routes.items[i], rq.path, M)}
        IN  (searchMode = "dynamic" /\ Looked(rq)) =>
                IF Q = {}
                THEN /\ ~rq.matched.found
                     /\ \A k \in 1..Len(rq.log) : rq.log[k].e # "handler"
                ELSE /\ rq.matched.found
                     /\ rq.matched.index = Min(Q)
                     /\ rq.matched.route = routes.items[Min(Q)]
                     /\ rq.pc = "done" =>
                           rq.log[Len(rq.log)]
                               = HandlerEvent(routes.items[Min(Q)].path,
                                              HandlerKey(routes.items[Min(Q)], M))

\* "/{x}" is registered before "/a", both serve GET, and GET /a has been
\* served by "/{x}"
C3_Witness ==
    /\ searchMode = "dynamic"
    /\ Len(routes.items) >= 2
    /\ routes.items[1].path = <<"/", "{", "x", "}">>
    /\ routes.items[2].path = <<"/", "a">>
    /\ "GET" \in DOMAIN routes.items[1].handlers
    /\ "GET" \in DOMAIN routes.items[2].handlers
    /\ \E r \in DOMAIN reqs :
          /\ reqs[r].pc = "done"
          /\ reqs[r].path = <<"/", "a">>
          /\ reqs[r].method = "GET"
          /\ reqs[r].log[Len(reqs[r].log)] = HandlerEvent(<<"/", "{", "x", "}">>, "GET")

\* C8: in static mode the request is served by the route stored under exactly
\* its normalized path when that route has a handler for the method or for
\* "ALL" (the method's handler first), and by the fallback otherwise.
C8_StaticDispatch ==
    \A r \in DOMAIN reqs :
        LET rq == reqs[r]
            M == ToUpperCase(rq.method)
        IN  (searchMode = "static" /\ Looked(rq)) =>
                IF /\ ObjectHas(routes.items, rq.path)
                   /\ \/ M \in DOMAIN ObjectGet(routes.items, rq.path).handlers
                      \/ "ALL" \in DOMAIN ObjectGet(routes.items, rq.path).handlers
                THEN /\ rq.matched.found
                     /\ rq.matched.route = ObjectGet(routes.items, rq.path)
                     /\ rq.matched.key
                            = (IF M \in DOMAIN ObjectGet(routes.items, rq.path).handlers
                               THEN M ELSE "ALL")
                ELSE ~rq.matched.found

-----------------------------------------------------------------------------
(* Claims about the middleware chains and split handlers *)

ChainRank(chain) == CASE chain = "global" -> 1 [] chain = "route" -> 2 [] chain = "method" -> 3

\* a chain of n middlewares, each invoked and then continuing
ChainEvents(chain, n) ==
    [k \in 1..(2 * n) |-> IF k % 2 = 1 THEN MwEvent(chain, (k - 1) \div 2)
                          ELSE NextEvent(chain, (k - 2) \div 2)]

ExpectedLog(rq) ==
    LET l == Lookup(routes, searchMode, rq.path, ToUpperCase(rq.method))
    IN  ChainEvents("global", middlewares)
        \o (IF ~Looked(rq) THEN <<>>
            ELSE <<LookupEvent(l.found)>>
                 \o (IF l.found
                     THEN ChainEvents("route", l.route.middlewares)
                          \o ChainEvents("method", l.handler.middlewares)
                          \o (IF l.handler.kind = "Handler"
                              THEN <<HandlerEvent(l.route.path, l.key)>>
                              ELSE <<SplitterEvent(l.route.path, l.key)>>)
                     ELSE IF fallback = "none" THEN <<>>
                     ELSE <<FallbackEvent(fallback)>>))

\* C6: the request runs the global chain, then the route search, then the
\* route's chain, then the handler entry's chain, then the handler; in each
\* chain the middlewares run in list order, each started only after the one
\* before it has invoked its continuation, and a stage starts only after the
\* last middleware of the stage before it has invoked its continuation.
C6_ChainsInOrder ==
    \A r \in DOMAIN reqs :
        LET rq == reqs[r]
            E == ExpectedLog(rq)
        IN  rq.pc # "idle" =>
                /\ \A k \in 1..Len(rq.log) : k <= Len(E) => rq.log[k] = E[k]
                /\ rq.pc \in {"splitter", "done", "threw"} => Len(rq.log) >= Len(E)
                /\ Len(rq.log) > Len(E) => rq.pc \in {"done", "threw"}
                /\ rq.mw # "none" => Len(rq.log) < Len(E)

\* two global middlewares, one of the route and one of the method have run and
\* continued, and the handler has been called
C6_Witness ==
    \E r \in DOMAIN reqs :
        /\ reqs[r].pc = "done"
        /\ middlewares = 2
        /\ reqs[r].matched.found
        /\ reqs[r].matched.route.middlewares = 1
        /\ reqs[r].matched.handler.middlewares = 1
        /\ Len(reqs[r].log) = 10
        /\ reqs[r].log[10].e = "handler"

\* the splitter of the request's split handler has returned
SplitterReturned(rq) ==
    /\ rq.pc \in {"done", "threw"}
    /\ rq.matched.found
    /\ rq.matched.handler.kind = "SplitHandler"

SplitterAt(log) == CHOOSE k \in 1..Len(log) : log[k].e = "splitter"

AfterSplitter(log) == SubSeq(log, SplitterAt(log) + 1, Len(log))

\* the method's chain has completed just before the splitter is called
SplitterAfterMethodChain(rq) ==
    LET at == SplitterAt(rq.log)
        n == rq.matched.handler.middlewares
    IN  /\ at > 2 * n
        /\ SubSeq(rq.log, at - 2 * n, at - 1) = ChainEvents("method", n)

\* C7 as stated: the splitter runs after the method's chain; a result r with
\* 0 <= r < number of candidates calls candidate r and nothing else; any other
\* result calls no candidate, emits "error" once and answers 500 with
\* responses["500"].
C7_SplitDispatchAsStated ==
    \A r \in DOMAIN reqs :
        LET rq == reqs[r]
        IN  SplitterReturned(rq) =>
                /\ SplitterAfterMethodChain(rq)
                /\ IF 0 <= rq.result.value /\ rq.result.value < rq.matched.handler.handlers
                   THEN AfterSplitter(rq.log) = <<CandidateEvent(rq.result.value)>>
                   ELSE AfterSplitter(rq.log)
                            = <<ErrorEvent, ResponseEvent(500, responses["500"])>>

\* C7: the splitter runs after the method's chain; a result r with
\* 0 <= r < number of candidates calls candidate r and nothing else; any other
\* result calls no candidate and emits "error" once, and then, when an "error"
\* listener is attached, answers 500 with responses["500"]; when none is
\* attached the emit throws and nothing is written.
C7_SplitDispatch ==
    \A r \in DOMAIN reqs :
        LET rq == reqs[r]
        IN  SplitterReturned(rq) =>
                /\ SplitterAfterMethodChain(rq)
                /\ IF 0 <= rq.result.value /\ rq.result.value < rq.matched.handler.handlers
                   THEN /\ AfterSplitter(rq.log) = <<CandidateEvent(rq.result.value)>>
                        /\ rq.pc = "done"
                   ELSE IF errorListeners
                   THEN /\ AfterSplitter(rq.log)
                               = <<ErrorEvent, ResponseEvent(500, responses["500"])>>
                        /\ rq.pc = "done"
                   ELSE /\ AfterSplitter(rq.log) = <<ErrorEvent>>
                        /\ rq.pc = "threw"

\* with an "error" listener attached and responses["500"] replaced, the
\* splitter of a split handler of two candidates and one middleware returned 2
C7_Witness ==
    \E r \in DOMAIN reqs :
        /\ SplitterReturned(reqs[r])
        /\ errorListeners
        /\ responses["500"] = "custom"
        /\ reqs[r].matched.handler.handlers = 2
        /\ reqs[r].matched.handler.middlewares = 1
        /\ reqs[r].result = Defined(2)
        /\ reqs[r].log[Len(reqs[r].log)] = ResponseEvent(500, "custom")

-----------------------------------------------------------------------------
(* Claims about the handler entry of the matched route *)

\* the middlewares of the method's chain the request has started
MethodMwsRun(log) == Cardinality({k \in 1..Len(log) : log[k].e = "mw" /\ log[k].chain = "method"})

\* C11: in either search mode a request served by a route uses the entry of its
\* upper-cased method when the route has one, and the "ALL" entry only when it
\* has none: the middlewares run for the method are that entry's and the
\* handler called is that entry's.
C11_ExactMethodFirst ==
    \A r \in DOMAIN reqs :
        LET rq == reqs[r]
            M == ToUpperCase(rq.method)
        IN  (Looked(rq) /\ rq.matched.found) =>
                LET handlers == TableGet(routes, rq.matched.route.path).handlers
                    key == IF M \in DOMAIN handlers THEN M ELSE "ALL"
                IN  /\ key \in DOMAIN handlers
                    /\ rq.matched.key = key
                    /\ rq.matched.handler = handlers[key]
                    /\ rq.pc = "done" =>
                          /\ rq.log[Len(rq.log)] = HandlerEvent(rq.matched.route.path, key)
                          /\ MethodMwsRun(rq.log) = handlers[key].middlewares

\* in static mode the route has a GET entry with one middleware and an "ALL"
\* entry with none, and a request of method "get" has run the middleware and
\* the GET handler
C11_Witness ==
    /\ searchMode = "static"
    /\ \E r \in DOMAIN reqs :
          /\ reqs[r].pc = "done"
          /\ reqs[r].method = "get"
          /\ reqs[r].matched.found
          /\ {"GET", "ALL"} \subseteq DOMAIN reqs[r].matched.route.handlers
          /\ reqs[r].matched.route.handlers["GET"].middlewares = 1
          /\ reqs[r].matched.route.handlers["ALL"].middlewares = 0
          /\ MethodMwsRun(reqs[r].log) = 1
          /\ reqs[r].log[Len(reqs[r].log)] = HandlerEvent(PipelinePath, "GET")

-----------------------------------------------------------------------------
(* Claims about the fallback and the terminal outcome *)

\* no route of the table has a matching path and a handler for the method or
\* for "ALL"; in static mode the path matches when it is the route's path
NoRouteQualifies(rq) ==
    LET M == ToUpperCase(rq.method)
        table == TableRoutes(routes)
    IN  \A i \in 1..Len(table) :
            IF searchMode = "dynamic"
            THEN ~Qualifies(table[i], rq.path, M)
            ELSE ~(/\ table[i].path = rq.path
                   /\ (M \in DOMAIN table[i].handlers \/ "ALL" \in DOMAIN table[i].handlers))

\* C12: a request that no route qualifies for and whose global chain has
\* completed runs, after the global chain and the search, the fallback in
\* force once and nothing else: no middleware of a route or method, no handler,
\* no splitter. The initial fallback answers 404 with responses["404"]; the
\* function given to setFallback is called in its place. (When setFallback was
\* given a falsy value there is no fallback to call.)
C12_FallbackOnNoMatch ==
    \A r \in DOMAIN reqs :
        LET rq == reqs[r]
        IN  (Looked(rq) /\ NoRouteQualifies(rq)) =>
                /\ rq.pc = "done"
                /\ rq.log = ChainEvents("global", middlewares)
                            \o <<LookupEvent(FALSE)>>
                            \o (CASE fallback = "default" ->
                                       <<FallbackEvent("default"),
                                         ResponseEvent(404, responses["404"])>>
                                  [] fallback = "none" -> <<>>
                                  [] OTHER -> <<FallbackEvent(fallback)>>)

\* after two global middlewares a request for "/b", which no route serves, got
\* the initial fallback's 404 with the text set by setResponse
C12_Witness ==
    \E r \in DOMAIN reqs :
        /\ reqs[r].pc = "done"
        /\ reqs[r].path = <<"/", "b">>
        /\ TableHas(routes, PipelinePath)
        /\ middlewares = 2
        /\ fallback = "default"
        /\ responses["404"] = "custom"
        /\ reqs[r].log[Len(reqs[r].log)] = ResponseEvent(404, "custom")

\* the terminal outcomes of a request: the handler, a candidate of a split
\* handler, the dispatch error of a split handler, the fallback
TerminalOutcomes(log) ==
    {k \in 1..Len(log) : log[k].e \in {"handler", "candidate", "error", "fallback"}}

Finished(rq) == rq.pc \in {"done", "threw"}

-----------------------------------------------------------------------------
(* Claims about requests in flight together *)

\* req.params as the request's own path and the route serving it give them
OwnParams(rq) ==
    LET l == Lookup(routes, searchMode, rq.path, ToUpperCase(rq.method))
    IN  IF Looked(rq) /\ l.found /\ searchMode = "dynamic"
        THEN Defined(MatchRoute(splitWithoutEmptyStrings(rq.path, "/"), l.route.path).temp)
        ELSE Undefined

\* what the request does when dispatched alone, up to its handler or to the end
\* of the fallback
LogAlone(rq) ==
    ExpectedLog(rq)
    \o (IF /\ Looked(rq)
            /\ ~Lookup(routes, searchMode, rq.path, ToUpperCase(rq.method)).found
            /\ fallback = "default"
        THEN <<ResponseEvent(404, responses["404"])>>
        ELSE <<>>)

\* C14: with requests in flight together and setup over, what each request has
\* done is what it does alone: its calls are a prefix of global chain, search,
\* route chain, method chain and handler or fallback, as its own path and
\* method give them, and req.params holds the bindings of its own path; and a
\* request that has arrived eventually halts in one of its own middlewares or
\* finishes, whatever the other does (stated for "r2"; the two requests are
\* interchangeable).
C14_RequestsIndependent ==
    /\ [](\A r \in DOMAIN reqs :
            LET rq == reqs[r]
                E == LogAlone(rq)
            IN  rq.pc # "idle" =>
                    /\ Len(rq.log) <= Len(E)
                    /\ \A k \in 1..Len(rq.log) : rq.log[k] = E[k]
                    /\ Finished(rq) => rq.log = E
                    /\ rq.params = OwnParams(rq))
    /\ (reqs["r2"].pc # "idle") ~> (reqs["r2"].mw = "halted" \/ Finished(reqs["r2"]))

\* one request for "/a" has halted in a middleware of the route, after the
\* search, and the other, for "/b", has been served by the same route with its
\* own binding
C14_Witness ==
    /\ reqs["r1"].mw = "halted"
    /\ reqs["r1"].pc = "route"
    /\ reqs["r1"].params = Defined([n \in {<<"x">>} |-> <<"a">>])
    /\ reqs["r2"].pc = "done"
    /\ reqs["r2"].params = Defined([n \in {<<"x">>} |-> <<"b">>])
    /\ reqs["r2"].log[Len(reqs["r2"].log)] = HandlerEvent(ConcPath, "GET")
    /\ middlewares >= 1
    /\ reqs["r2"].matched.handler.middlewares >= 1

-----------------------------------------------------------------------------
(* Claims about the field parsers *)

ParseQueryDone == fnIn.op = "parseQuery" /\ fnOut # NoOut
CookieParserDone == fnIn.op = "cookieParser" /\ fnOut # NoOut

\* C16: the query-string parser applied to the empty string returns an empty
\* mapping, not the malformed signal.
C16_EmptyQueryIsEmptyMapping ==
    (ParseQueryDone /\ fnIn.data = <<>>) => fnOut = Object(EmptyObj)

\* the entries of a cookie header: an entry runs up to the next ";", which
\* ends it and takes the character after it along; the rest after the last
\* ";" is an entry that has not ended
RECURSIVE CookieEntries(_)
CookieEntries(header) ==
    IF header = <<>> THEN <<>>
    ELSE IF \E p \in 1..Len(header) : header[p] = ";"
    THEN LET p == Min({k \in 1..Len(header) : header[k] = ";"})
         IN  <<[text |-> SubSeq(header, 1, p - 1), ended |-> TRUE]>>
             \o CookieEntries(SubSeq(header, p + 2, Len(header)))
    ELSE <<[text |-> header, ended |-> FALSE]>>

\* an entry's key is what precedes its first "=", its value what follows it
EntryKey(text) ==
    IF \E p \in 1..Len(text) : text[p] = "="
    THEN SubSeq(text, 1, Min({k \in 1..Len(text) : text[k] = "="}) - 1)
    ELSE text

EntryValue(text) ==
    IF \E p \in 1..Len(text) : text[p] = "="
    THEN SubSeq(text, Min({k \in 1..Len(text) : text[k] = "="}) + 1, Len(text))
    ELSE <<>>

\* a value that is all decimal digits
IsDecimalNumeral(str) == str # <<>> /\ \A k \in 1..Len(str) : str[k] \in Digits

\* the conversion as claim C17 has it
ConversionAsStated(str, emptyIsTrue) ==
    IF str = True \/ (emptyIsTrue /\ str = <<>>) THEN BooleanValue(TRUE)
    ELSE IF str = False THEN BooleanValue(FALSE)
    ELSE IF IsDecimalNumeral(str) THEN NumberValue(NumeralValue(str, 10))
    ELSE StringValue(str)

\* the mapping of the first n entries, a later entry replacing an earlier one
\* of its key, each value converted as the cookie parser converts it or as
\* claim C17 has it
RECURSIVE EntriesMapping(_, _, _)
EntriesMapping(entries, n, asStated) ==
    IF n = 0 THEN EmptyObj
    ELSE Put(EntriesMapping(entries, n - 1, asStated), EntryKey(entries[n].text),
             IF asStated THEN ConversionAsStated(EntryValue(entries[n].text), FALSE)
             ELSE ConvertCookieValue(EntryValue(entries[n].text)))

\* malformed as claim C18 has it
MalformedCookie(header) ==
    LET entries == CookieEntries(header)
        n == Len(entries)
    IN  \/ \E k \in 1..n : entries[k].ended /\ EntryKey(entries[k].text) = <<>>
        \/ \E k \in 1..n : entries[k].text # <<>> /\ Head(entries[k].text) = "="
        \/ /\ header[Len(header)] # ";"
           /\ \/ n = 0
              \/ entries[n].ended
              \/ EntryKey(entries[n].text) = <<>>
              \/ EntryValue(entries[n].text) = <<>>

\* C17: with conversion asked for, in a query string and in a cookie header, a
\* value "true" or "false" (in a query string also an empty value) becomes the
\* boolean, a value that is all decimal digits becomes the number, and every
\* other value stays the string it was.
C17_CoercionAsStated ==
    /\ (ParseQueryDone /\ fnIn.convertValues /\ ~fnOut.null) =>
          LET raw == parseQuery(fnIn.data, FALSE).object
          IN  /\ DOMAIN fnOut.object = DOMAIN raw
              /\ \A k \in DOMAIN raw :
                    fnOut.object[k] = ConversionAsStated(raw[k].string, TRUE)
    /\ (CookieParserDone /\ ~fnOut.null) =>
          LET entries == CookieEntries(fnIn.data)
          IN  fnOut.object = EntriesMapping(entries, Len(entries), TRUE)

\* C18: a request without a cookie header gets an empty mapping; a header is
\* refused exactly when an entry ended by ";" has an empty key, an entry
\* starts with "=", or the header does not end in ";" and its last entry has
\* an empty key or an empty value; a header not refused gives the mapping of
\* its entries' keys to their converted values, a later entry replacing an
\* earlier one of the same key.
C18_CookieSyntax ==
    CookieParserDone =>
        IF fnIn.data = <<>> THEN fnOut = Object(EmptyObj)
        ELSE IF MalformedCookie(fnIn.data) THEN fnOut = Null
        ELSE LET entries == CookieEntries(fnIn.data)
             IN  fnOut = Object(EntriesMapping(entries, Len(entries), FALSE))

\* "k=1; j=true;" was parsed into k: 1, j: true
C18_Witness ==
    /\ CookieParserDone
    /\ fnIn.data = <<"k", "=", "1", ";", " ", "j", "=", "t", "r", "u", "e", ";">>
    /\ fnOut = Object(Put(Put(EmptyObj, <<"k">>, NumberValue(1)), <<"j">>, BooleanValue(TRUE)))

\* the entries of a query string: what stands between its "&" and ";"
RECURSIVE QueryEntries(_)
QueryEntries(queryString) ==
    IF \E p \in 1..Len(queryString) : queryString[p] \in {"&", ";"}
    THEN LET p == Min({k \in 1..Len(queryString) : queryString[k] \in {"&", ";"}})
         IN  <<SubSeq(queryString, 1, p - 1)>>
             \o QueryEntries(SubSeq(queryString, p + 1, Len(queryString)))
    ELSE <<queryString>>

HexDigits == {"0", "1", "2", "3", "4", "5", "6", "7", "8", "9",
              "a", "b", "c", "d", "e", "f", "A", "B", "C", "D", "E", "F"}

\* a "%" that two hexadecimal digits do not follow
BadEscape(str) ==
    \E k \in 1..Len(str) :
        /\ str[k] = "%"
        /\ ~(k + 2 <= Len(str) /\ str[k + 1] \in HexDigits /\ str[k + 2] \in HexDigits)

\* C23: the query-string parser returns the malformed signal, and no mapping,
\* for every non-empty string with an entry whose key is empty (an entry that
\* is empty or starts with "=", a trailing separator included) and for every
\* string with a "%" that two hexadecimal digits do not follow.
C23_MalformedQuery ==
    (/\ ParseQueryDone
     /\ fnIn.data # <<>>
     /\ \/ \E k \in 1..Len(QueryEntries(fnIn.data)) :
              EntryKey(QueryEntries(fnIn.data)[k]) = <<>>
        \/ BadEscape(fnIn.data))
        => fnOut = Null

\* "a=1&&b=2" was refused
C23_Witness ==
    /\ ParseQueryDone
    /\ fnIn.data = <<"a", "=", "1", "&", "&", "b", "=", "2">>
    /\ fnOut = Null

\* a string without its "=" characters
RECURSIVE WithoutEquals(_)
WithoutEquals(str) ==
    IF str = <<>> THEN <<>>
    ELSE (IF Head(str) = "=" THEN <<>> ELSE <<Head(str)>>) \o WithoutEquals(Tail(str))

\* the character an escape stands for
EscapedChar(h1, h2) ==
    CASE <<h1, h2>> = <<"4", "1">> -> "A"
      [] <<h1, h2>> = <<"2", "6">> -> "&"
      [] <<h1, h2>> = <<"3", "B">> -> ";"
      [] <<h1, h2>> = <<"3", "D">> -> "="
      [] <<h1, h2>> = <<"2", "0">> -> " "
      [] OTHER -> FromCharCode(h1, h2)

\* a piece of an entry with each escape replaced by its character
RECURSIVE Decoded(_)
Decoded(str) ==
    IF str = <<>> THEN <<>>
    ELSE IF Head(str) = "%"
    THEN <<EscapedChar(str[2], str[3])>> \o Decoded(SubSeq(str, 4, Len(str)))
    ELSE <<Head(str)>> \o Decoded(Tail(str))

\* the mapping of the first n entries of a query string, the escapes decoded
\* inside each key and each value
RECURSIVE QueryMapping(_, _, _)
QueryMapping(entries, n, convertValues) ==
    IF n = 0 THEN EmptyObj
    ELSE LET key == Decoded(EntryKey(entries[n]))
             value == Decoded(WithoutEquals(EntryValue(entries[n])))
         IN  Put(QueryMapping(entries, n - 1, convertValues), key,
                 IF convertValues THEN ConvertQueryValue(value) ELSE StringValue(value))

\* C24: in a string the query-string parser accepts, each %XX stands for the
\* one character of code 0xXX inside the key or value where it occurs; the
\* entries, keys and values are delimited by the literal "&", ";" and "=" of
\* the string alone, never by a decoded character.
C24_EscapesDecodedInline ==
    (ParseQueryDone /\ ~fnOut.null) =>
        LET entries == QueryEntries(fnIn.data)
        IN  fnOut.object = QueryMapping(entries, Len(entries), fnIn.convertValues)

\* "a=%3Bb&c=%3D" was parsed into a: ";b", c: "="
C24_Witness ==
    /\ ParseQueryDone
    /\ ~fnIn.convertValues
    /\ fnIn.data = <<"a", "=", "%", "3", "B", "b", "&", "c", "=", "%", "3", "D">>
    /\ fnOut = Object(Put(Put(EmptyObj, <<"a">>, StringValue(<<";", "b">>)),
                          <<"c">>, StringValue(<<"=">>)))

\* the mapping of the first n entries of a cookie header, the escapes decoded
\* inside each key and each value
RECURSIVE DecodedEntriesMapping(_, _)
DecodedEntriesMapping(entries, n) ==
    IF n = 0 THEN EmptyObj
    ELSE Put(DecodedEntriesMapping(entries, n - 1), Decoded(EntryKey(entries[n].text)),
             ConvertCookieValue(Decoded(EntryValue(entries[n].text))))

\* C25 as stated: the cookie parser refuses a header with a "%" that two
\* hexadecimal digits do not follow, and in a header it accepts each %XX
\* stands for its character inside the key or value where it occurs.
C25_CookieEscapesAsStated ==
    (CookieParserDone /\ Includes(fnIn.data, "%")) =>
        IF BadEscape(fnIn.data) THEN fnOut = Null
        ELSE ~fnOut.null =>
                 LET entries == CookieEntries(fnIn.data)
                 IN  fnOut.object = DecodedEntriesMapping(entries, Len(entries))

\* C25 amended: to the cookie parser "%" is a character like any other: a
\* header with "%" is refused or accepted as its entries alone decide, and the
\* keys and values of an accepted header keep their "%" and what follows it.
C25_CookieEscapes ==
    (CookieParserDone /\ Includes(fnIn.data, "%")) =>
        IF MalformedCookie(fnIn.data) THEN fnOut = Null
        ELSE LET entries == CookieEntries(fnIn.data)
             IN  fnOut = Object(EntriesMapping(entries, Len(entries), FALSE))

\* "k=%41;" was parsed into k: "%41"
C25_Witness ==
    /\ CookieParserDone
    /\ fnIn.data = <<"k", "=", "%", "4", "1", ";">>
    /\ fnOut = Object(Put(EmptyObj, <<"k">>, StringValue(<<"%", "4", "1">>)))

\* the entry at index k is the last one of its key
LastOfItsKey(texts, k) ==
    \A j \in (k + 1)..Len(texts) : EntryKey(texts[j]) # EntryKey(texts[k])

\* the texts of the entries of a cookie header
CookieEntryTexts(header) ==
    [k \in 1..Len(CookieEntries(header)) |-> CookieEntries(header)[k].text]

\* C31: the two parsers differ on "=" inside a value. In a query string every
\* literal "=" is the separator and none reaches the value: the value of an
\* entry is what follows its first "=" without the further "=" ("a=b=c" gives
\* a: "bc"). In a cookie header only the first "=" of an entry separates, and
\* the value is all that follows it, later "=" included ("a=b=c" gives
\* a: "b=c").
C31_EqualsInsideValues ==
    /\ (ParseQueryDone /\ ~fnOut.null /\ ~Includes(fnIn.data, "%")) =>
          LET texts == QueryEntries(fnIn.data)
          IN  \A k \in 1..Len(texts) :
                  LastOfItsKey(texts, k) =>
                      LET value == WithoutEquals(EntryValue(texts[k]))
                      IN  /\ EntryKey(texts[k]) \in DOMAIN fnOut.object
                          /\ fnOut.object[EntryKey(texts[k])] =
                                (IF fnIn.convertValues THEN ConvertQueryValue(value)
                                 ELSE StringValue(value))
    /\ (CookieParserDone /\ ~fnOut.null) =>
          LET texts == CookieEntryTexts(fnIn.data)
          IN  \A k \in 1..Len(texts) :
                  (LastOfItsKey(texts, k) /\ Includes(EntryValue(texts[k]), "=")) =>
                      /\ EntryKey(texts[k]) \in DOMAIN fnOut.object
                      /\ fnOut.object[EntryKey(texts[k])] = StringValue(EntryValue(texts[k]))

\* "a=b=c" was parsed as a query string into a: "bc"
C31_Witness ==
    /\ ParseQueryDone
    /\ ~fnIn.convertValues
    /\ fnIn.data = <<"a", "=", "b", "=", "c">>
    /\ fnOut = Object(Put(EmptyObj, <<"a">>, StringValue(<<"b", "c">>)))

\* "a=b=c" was parsed as a cookie header into a: "b=c"
C31_CookieWitness ==
    /\ CookieParserDone
    /\ fnIn.data = <<"a", "=", "b", "=", "c">>
    /\ fnOut = Object(Put(EmptyObj, <<"a">>, StringValue(<<"b", "=", "c">>)))

-----------------------------------------------------------------------------
(* Claims about the built-in middlewares *)

\* the middleware at index i of the global list has returned for good
Returned(rq, i) ==
    /\ rq.pc # "idle"
    /\ \/ rq.pc # "global"
       \/ rq.i > i
       \/ rq.i = i /\ rq.mw \in {"halted", "none"}

HasContentType(rq) == rq.contentType.defined /\ rq.contentType.value # <<>>

UrlEncoded(rq) ==
    HasContentType(rq) /\ MediaType(rq.contentType.value) = <<"application/x-www-form-urlencoded">>

Json(rq) == HasContentType(rq) /\ MediaType(rq.contentType.value) = <<"application/json">>

\* what the parser at index i finds wrong with the request: the status and
\* the error code of its answer, or nothing
Refusal(status, code) == [refused |-> TRUE, status |-> status, code |-> code]
NoRefusal == [refused |-> FALSE]

Verdict(rq, i) ==
    CASE i = 1 ->
           IF ~HasContentType(rq) THEN NoRefusal
           ELSE IF UrlEncoded(rq)
           THEN IF parseQuery(rq.body, TRUE).null THEN Refusal(400, "400b") ELSE NoRefusal
           ELSE IF Json(rq)
           THEN IF JsonParse(rq.body).null THEN Refusal(400, "400b") ELSE NoRefusal
           ELSE Refusal(415, "415")
      [] i = 2 -> IF ParseCookies(rq.cookie).null THEN Refusal(400, "400c") ELSE NoRefusal
      [] i = 3 ->
           IF rq.query.defined /\ parseQuery(rq.query.value, TRUE).null
           THEN Refusal(400, "400q") ELSE NoRefusal

\* the request stopped in the middleware at index i of the global list, the
\* last thing done for it being a response of this status and body
StoppedWith(rq, i, status, body) ==
    /\ rq.pc = "global"
    /\ rq.i = i
    /\ rq.mw = "halted"
    /\ rq.log # <<>>
    /\ rq.log[Len(rq.log)] = ResponseEvent(status, body)
    /\ \A k \in 1..(Len(rq.log) - 1) :
          /\ rq.log[k].e \in {"mw", "next"}
          /\ rq.log[k].chain = "global"
          /\ rq.log[k].i <= i

\* C15: once a built-in parser has returned on input it refuses (malformed
\* body, cookie header or query string: 400; unrecognized content-type: 415),
\* the response with that status and the text configured for its error code
\* (400b, 400c, 400q, 415) is the last thing done for the request: no later
\* middleware, lookup, handler or fallback runs.
C15_ParsersRefuse ==
    \A r \in DOMAIN reqs : \A i \in 1..3 :
        LET rq == reqs[r]
            v == Verdict(rq, i)
        IN  (middlewares = 4 /\ Returned(rq, i) /\ v.refused)
                => StoppedWith(rq, i, v.status, responses[v.code])

\* how many times the body parser has invoked its continuation
BodyParserContinuations(rq) ==
    Cardinality({k \in 1..Len(rq.log) : rq.log[k] = NextEvent("global", 1)})

\* C19: once the body parser has returned without refusing the request,
\* req.body is an empty mapping when there is no content-type header, the
\* coerced query-style mapping of the body for
\* application/x-www-form-urlencoded, the decoded JSON value for
\* application/json, and it has continued exactly once; with a content-type
\* header it never continues before the body stream has ended.
C19_BodyParser ==
    \A r \in DOMAIN reqs :
        LET rq == reqs[r]
        IN  /\ BodyParserContinuations(rq) <= 1
            /\ (HasContentType(rq) /\ BodyParserContinuations(rq) = 1)
                   => (rq.ended /\ rq.received = rq.body)
            /\ (middlewares = 4 /\ Returned(rq, 1) /\ ~Verdict(rq, 1).refused)
                   => /\ BodyParserContinuations(rq) = 1
                      /\ rq.parsed.body =
                             IF UrlEncoded(rq) THEN Defined(parseQuery(rq.body, TRUE).object)
                             ELSE IF Json(rq) THEN Defined(JsonParse(rq.body).object)
                             ELSE Defined(EmptyObj)

-----------------------------------------------------------------------------
(* Claims about the route accessor *)

\* the paths of the table's routes are pairwise different
UniquePaths(table) ==
    \A i, j \in 1..Len(table.items) :
        TableRoutes(table)[i].path = TableRoutes(table)[j].path => i = j

\* the path route() works on
Slashed(path) == IF path # <<>> /\ path[1] = "/" THEN path ELSE <<"/">> \o path

IsEmptyRoute(route, path) ==
    /\ route.path = path
    /\ DOMAIN route.handlers = {}
    /\ route.middlewares = 0

\* what a call route(path, createNew) may do to the table and return
RouteAsStated(path, createNew) ==
    LET exists == \E i \in 1..Len(routes.items) : TableRoutes(routes)[i].path = Slashed(path)
        before == TableRoutes(routes)
        after == TableRoutes(routes')
    IN  /\ searchMode' = searchMode
        /\ exists => routes' = routes /\ lastOp'.ret = "found"
        /\ (~exists /\ ~createNew) => routes' = routes /\ lastOp'.ret = "null"
        /\ (~exists /\ createNew) =>
              /\ lastOp'.ret = "created"
              /\ routes'.kind = routes.kind
              /\ Len(after) = Len(before) + 1
              /\ \E k \in 1..Len(after) :
                    /\ IsEmptyRoute(after[k], Slashed(path))
                    /\ searchMode = "dynamic" => k = Len(after)
                    /\ \A i \in 1..Len(before) : before[i] = after[IF i < k THEN i ELSE i + 1]

\* C20: route(path, createNew) works on the path made to begin with "/";
\* when the table holds a route of that path it returns it and leaves the
\* table unchanged; otherwise, with createNew, it adds exactly one route with
\* no handlers and no middlewares (last in dynamic mode) and returns it, and
\* without createNew it returns null and leaves the table unchanged. In every
\* state reached by route(), addHandler(), reorder() and setSearchMode() no
\* two routes of the table have the same path.
C20_LookupOrCreate ==
    /\ []UniquePaths(routes)
    /\ [][\A path \in TablePathInputs, createNew \in BOOLEAN :
              Route(path, createNew) => RouteAsStated(path, createNew)]_vars

\* route() has added a route behind the ones the table held
C20_Witness ==
    /\ lastOp.op = "route"
    /\ lastOp.ret = "created"
    /\ searchMode = "dynamic"
    /\ Len(routes.items) >= 2
    /\ IsEmptyRoute(routes.items[Len(routes.items)], routes.items[Len(routes.items)].path)

-----------------------------------------------------------------------------
(* Claims about the matcher *)

MatchDone == fnIn.op = "match" /\ fnOut # NoOut

ReqSegsIn == splitWithoutEmptyStrings(fnIn.req, "/")
RouteSegsIn == splitWithoutEmptyStrings(fnIn.route, "/")

\* a segment written {name}
Braced(seg) == Len(seg) >= 2 /\ Head(seg) = "{" /\ seg[Len(seg)] = "}"

\* position of the first "*" segment, or one past the end when there is none
FirstWildcard(P) ==
    IF \E j \in 1..Len(P) : P[j] = <<"*">>
    THEN CHOOSE j \in 1..Len(P) : P[j] = <<"*">> /\ \A k \in 1..(j - 1) : P[k] # <<"*">>
    ELSE Len(P) + 1

\* the bindings the positions 1..upTo-1 of route P give on request R
BindingsAgree(temp, R, P, upTo) ==
    LET pos == {j \in 1..(upTo - 1) : Braced(P[j])}
    IN  /\ DOMAIN temp = {SubSeq(P[j], 2, Len(P[j]) - 1) : j \in pos}
        /\ \A j \in pos :
              (\A k \in pos : k > j => P[k] # P[j])
                  => temp[SubSeq(P[j], 2, Len(P[j]) - 1)] = R[j]

\* C1: a route with a "*" segment matches every request whose segments before
\* the wildcard position agree with the route's, whatever the request's length.
C1_WildcardMatchesAnyLength ==
    MatchDone =>
        LET R == ReqSegsIn
            P == RouteSegsIn
            w == FirstWildcard(P)
        IN  (/\ w <= Len(P)
             /\ Len(R) >= w - 1
             /\ \A j \in 1..(w - 1) : Braced(P[j]) \/ P[j] = R[j])
                => fnOut.result = TRUE

\* C2 as stated: a route with a {name} segment matches exactly when the lengths
\* are equal and every segment that is neither a parameter nor "*" equals the
\* request's; the bindings are those of every parameter segment.
C2_ParamMatchAsStated ==
    (MatchDone /\ \E j \in 1..Len(RouteSegsIn) : Braced(RouteSegsIn[j])) =>
        LET R == ReqSegsIn
            P == RouteSegsIn
        IN  /\ fnOut.result =
                  (/\ Len(R) = Len(P)
                   /\ \A j \in 1..Len(P) :
                         (~Braced(P[j]) /\ P[j] # <<"*">>) => (j <= Len(R) /\ P[j] = R[j]))
            /\ fnOut.result = TRUE => BindingsAgree(fnOut.temp, R, P, Len(P) + 1)

\* C2 amended: a route with a {name} segment matches exactly when the lengths
\* are equal and every non-parameter segment before the route's first "*"
\* equals the request's segment at that position; on a match the bindings are
\* those of the parameter segments before the first "*", as strings.
C2_ParamMatch ==
    (MatchDone /\ \E j \in 1..Len(RouteSegsIn) : Braced(RouteSegsIn[j])) =>
        LET R == ReqSegsIn
            P == RouteSegsIn
            w == FirstWildcard(P)
        IN  /\ fnOut.result =
                  (/\ Len(R) = Len(P)
                   /\ \A j \in 1..(w - 1) : ~Braced(P[j]) => P[j] = R[j])
            /\ fnOut.result = TRUE => BindingsAgree(fnOut.temp, R, P, w)

\* "/f/{x}" matched against "/f/a" binds x to "a"
C2_Witness ==
    /\ MatchDone
    /\ fnIn.route = <<"/", "f", "/", "{", "x", "}">>
    /\ fnIn.req = <<"/", "f", "/", "a">>
    /\ fnOut.result = TRUE
    /\ fnOut.temp = [n \in {<<"x">>} |-> <<"a">>]

-----------------------------------------------------------------------------
(* Claims about the segment tokenizer *)

SplitDone == fnIn.op = "split" /\ fnOut # NoOut

\* the maximal runs of characters other than "/" of a string, left to right
RECURSIVE Runs(_, _, _)
Runs(data, i, run) ==
    IF i > Len(data) THEN (IF run = <<>> THEN <<>> ELSE <<run>>)
    ELSE IF data[i] = "/"
         THEN (IF run = <<>> THEN <<>> ELSE <<run>>) \o Runs(data, i + 1, <<>>)
         ELSE Runs(data, i + 1, Append(run, data[i]))

\* C21: for an input with at least one character other than the delimiter the
\* tokenizer yields no empty segment: the segments are the runs of
\* non-delimiter characters, whatever delimiters lead, trail or are adjacent.
C21_NoEmptySegment ==
    (SplitDone /\ \E k \in 1..Len(fnIn.data) : fnIn.data[k] # "/") =>
        /\ \A k \in 1..Len(fnOut.segments) : fnOut.segments[k] # <<>>
        /\ fnOut.segments = Runs(fnIn.data, 1, <<>>)

\* C22: the tokenizer returns at least one segment; for the empty string and
\* for "/" it returns the input itself as the only segment; and the request
\* "/" matches exactly the routes whose path has one segment that is "/", "*"
\* or a {name} parameter.
C22_RootSegment ==
    /\ SplitDone =>
          /\ Len(fnOut.segments) >= 1
          /\ fnIn.data \in {<<>>, <<"/">>} => fnOut.segments = <<fnIn.data>>
    /\ (MatchDone /\ fnIn.req = <<"/">>) =>
          fnOut.result =
              (/\ Len(RouteSegsIn) = 1
               /\ \/ RouteSegsIn[1] = <<"/">>
                  \/ RouteSegsIn[1] = <<"*">>
                  \/ Braced(RouteSegsIn[1]))

\* "/" was tokenized to the one segment "/"
C22_Witness ==
    /\ SplitDone
    /\ fnIn.data = <<"/">>
    /\ fnOut.segments = <<<<"/">>>>

-----------------------------------------------------------------------------
(* Claims about the parameter bindings *)

\* C26: after the search of a request in dynamic mode, req.params holds the
\* bindings of the route that serves it, one for each {name} segment before
\* the route's first "*", and nothing else, whatever routes were tried before
\* it; when no route serves the request, req.params is not set.
C26_BindingsOfWinningRoute ==
    \A r \in DOMAIN reqs :
        LET rq == reqs[r]
            R == splitWithoutEmptyStrings(rq.path, "/")
            Q == {i \in 1..Len(routes.items) :
                      Qualifies(routes.items[i], rq.path, ToUpperCase(rq.method))}
        IN  IF searchMode = "dynamic" /\ Looked(rq) /\ Q # {}
            THEN LET P == splitWithoutEmptyStrings(routes.items[Min(Q)].path, "/")
                 IN  /\ rq.params.defined
                     /\ BindingsAgree(rq.params.value, R, P, FirstWildcard(P))
            ELSE ~rq.params.defined

\* "/{x}/f" was tried on /a/b before "/{y}/{z}" served it with y and z bound
C26_Witness ==
    /\ searchMode = "dynamic"
    /\ Len(routes.items) >= 2
    /\ routes.items[1].path = <<"/", "{", "x", "}", "/", "f">>
    /\ "GET" \in DOMAIN routes.items[1].handlers
    /\ \E r \in DOMAIN reqs :
          /\ reqs[r].pc = "done"
          /\ reqs[r].path = <<"/", "a", "/", "b">>
          /\ reqs[r].matched.found
          /\ reqs[r].matched.route.path = <<"/", "{", "y", "}", "/", "{", "z", "}">>
          /\ reqs[r].params = Defined([n \in {<<"y">>, <<"z">>} |->
                                          IF n = <<"y">> THEN <<"a">> ELSE <<"b">>])

-----------------------------------------------------------------------------
(* Claims about empty middleware lists *)

\* the request has no middleware to run: the global list is empty and so are
\* the lists of the route and of the handler entry found for it
NoMiddlewares(rq) ==
    /\ middlewares = 0
    /\ (rq.matched # Pending /\ rq.matched.found) =>
          /\ rq.matched.route.middlewares = 0
          /\ rq.matched.handler.middlewares = 0

\* C27: a chain over an empty list is complete as soon as it is started, with
\* no middleware invoked and no failure; a request with no global, route or
\* method middleware goes through the search to its handler or to the
\* fallback with nothing else done for it.
C27_EmptyListCompletes ==
    \A r \in DOMAIN reqs :
        LET rq == reqs[r]
        IN  /\ (rq.pc \in {"global", "route", "method"} /\ ChainLength(rq) = 0) =>
                  /\ rq.resolved
                  /\ rq.mw = "none"
                  /\ \A k \in 1..Len(rq.log) :
                        rq.log[k].e \in {"mw", "next"} => rq.log[k].chain # rq.pc
            /\ (rq.pc # "idle" /\ NoMiddlewares(rq)) =>
                  /\ rq.mw = "none"
                  /\ \A k \in 1..Len(rq.log) : rq.log[k].e \notin {"mw", "next"}
                  /\ rq.pc = "threw" =>
                        (rq.log # <<>> /\ rq.log[Len(rq.log)] = ErrorEvent)
                  /\ rq.pc \in {"route", "method", "splitter", "done"} =>
                        rq.log[1] = LookupEvent(rq.matched.found)
                  /\ (rq.pc = "done" /\ rq.matched.found
                          /\ rq.matched.handler.kind = "Handler") =>
                        rq.log = <<LookupEvent(TRUE),
                                   HandlerEvent(rq.matched.route.path, rq.matched.key)>>
                  /\ (rq.pc = "done" /\ ~rq.matched.found /\ fallback = "custom") =>
                        rq.log = <<LookupEvent(FALSE), FallbackEvent("custom")>>

\* a request without any middleware has been served by its route's handler
C27_Witness ==
    \E r \in DOMAIN reqs :
        /\ middlewares = 0
        /\ reqs[r].pc = "done"
        /\ reqs[r].matched.found
        /\ reqs[r].matched.route.middlewares = 0
        /\ reqs[r].matched.handler.middlewares = 0
        /\ reqs[r].log = <<LookupEvent(TRUE), HandlerEvent(PipelinePath, "GET")>>

-----------------------------------------------------------------------------
(* Claims about the frame of setSearchMode *)

\* C30: setSearchMode(mode, keepRoutes) leaves the mode and the route table as
\* they are when mode is the current mode, whatever keepRoutes is and with no
\* "error" emitted, and when mode is neither "dynamic" nor "static", with
\* "error" emitted once.
C30_SetSearchModeFrame ==
    [][\A mode \in ModeInputs, keepRoutes \in BOOLEAN :
           (SetSearchMode(mode, keepRoutes)
                /\ (mode = searchMode \/ mode \notin {"dynamic", "static"}))
               => /\ searchMode' = searchMode
                  /\ routes' = routes
                  /\ lastOp'.ret = (IF mode = searchMode THEN "same" ELSE "error")]_vars

\* setSearchMode was called with the current mode and keepRoutes false on a
\* table that holds a route, and the route is still there
C30_Witness ==
    /\ lastOp.op = "setSearchMode"
    /\ lastOp.ret = "same"
    /\ lastOp.args = <<searchMode, FALSE>>
    /\ Len(routes.items) >= 1

-----------------------------------------------------------------------------
(* Claims about repeated continuation calls *)

Occurrences(log, event) == Cardinality({n \in 1..Len(log) : log[n] = event})

\* C28: within a request each middleware of each chain is invoked at most
\* once, and the handler or the fallback is invoked at most once, however
\* often the middlewares call their continuations.
C28_AtMostOnce ==
    \A r \in DOMAIN reqs :
        LET log == reqs[r].log
        IN  /\ \A c \in Chains, k \in 0..MaxMwLen : Occurrences(log, MwEvent(c, k)) <= 1
            /\ Cardinality({n \in 1..Len(log) : log[n].e \in {"handler", "fallback"}}) <= 1

\* a middleware has called its continuation a second time, past the end of
\* its chain, and the request has been served by its handler once
C28_Witness ==
    \E r \in DOMAIN reqs :
        LET log == reqs[r].log
        IN  /\ reqs[r].pc = "done"
            /\ \E c \in Chains, k \in 0..MaxMwLen :
                  /\ Occurrences(log, NextEvent(c, k)) >= 2
                  /\ \E n \in 1..Len(log) : log[n].e = "throw" /\ log[n].chain = c
            /\ Cardinality({n \in 1..Len(log) : log[n].e = "handler"}) = 1

-----------------------------------------------------------------------------
(* Claims about changes to the table while a request is suspended *)

\* the middlewares of one chain the log shows as invoked
Invoked(log, chain) ==
    Cardinality({n \in 1..Len(log) : log[n].e = "mw" /\ log[n].chain = chain})

\* what a request has run so far belongs to the route and the handler entry
\* its search chose
RunsWhatWasMatched(rq) ==
    \A n \in 1..Len(rq.log) :
        LET ev == rq.log[n]
            matched == rq.matched # Pending /\ rq.matched.found
        IN  /\ (ev.e = "mw" /\ ev.chain = "route")
                  => matched /\ ev.i < rq.matched.route.middlewares
            /\ (ev.e = "mw" /\ ev.chain = "method")
                  => matched /\ ev.i < rq.matched.handler.middlewares
            /\ ev.e = "handler"
                  => /\ matched
                     /\ ev.path = rq.matched.route.path
                     /\ ev.key = rq.matched.key
                     /\ rq.matched.handler.kind = "Handler"
                     /\ Invoked(rq.log, "route") = rq.matched.route.middlewares
                     /\ Invoked(rq.log, "method") = rq.matched.handler.middlewares

\* a step either performs the search of a request, on the table and in the
\* mode of that moment and without changing them, or leaves what the request's
\* search chose as it is
SearchOnceOnTheTableOfTheMoment ==
    \A r \in DOMAIN reqs :
        IF reqs[r].matched = Pending
        THEN reqs'[r].matched # Pending
                => /\ reqs'[r].matched = Lookup(routes, searchMode, reqs[r].path,
                                                ToUpperCase(reqs[r].method))
                   /\ routes' = routes
                   /\ searchMode' = searchMode
        ELSE reqs'[r].matched = reqs[r].matched

\* C29: the search of a request is one step that reads the table as it is at
\* that moment, and the handler entry is fixed by it: replacing the route's
\* handler, reorder(), registering routes or switching the search mode while
\* the request is suspended in the route's or the method's chain changes
\* neither the middlewares nor the terminal handler that run for it.
C29_HandlerFixedAtMatch ==
    /\ [](\A r \in DOMAIN reqs : RunsWhatWasMatched(reqs[r]))
    /\ [][SearchOnceOnTheTableOfTheMoment]_vars

\* a request is suspended in the method chain of the handler entry its search
\* chose, and the table now holds another entry, with no middlewares, for the
\* same route and method
C29_Witness ==
    \E r \in DOMAIN reqs :
        LET rq == reqs[r]
            now == Lookup(routes, searchMode, rq.path, ToUpperCase(rq.method))
        IN  /\ rq.pc = "method"
            /\ rq.mw = "running"
            /\ rq.matched # Pending
            /\ rq.matched.found
            /\ rq.log[Len(rq.log)] = MwEvent("method", 0)
            /\ now.found
            /\ now.route.path = rq.matched.route.path
            /\ now.handler.middlewares = 0
            /\ rq.matched.handler.middlewares = 1

====
